---- MODULE Spec2Model ----
(***************************************************************************)
(* Server side of the offline-first todo/notes application: the sync batch *)
(* processor (SyncService / SyncRepository), the conflict resolver         *)
(* (ConflictsService / ConflictsRepository) and the single-record CRUD     *)
(* writers (BaseRepository), over the three tables Todo/Note, Conflict and *)
(* ProcessedOperation.                                                     *)
(*                                                                         *)
(* Every `await` on a repository call is one step of the model: the        *)
(* service code opens no transaction around the calls of one operation, so *)
(* other requests interleave between them.  Only resolveConflict wraps its *)
(* two writes in prisma.$transaction.                                      *)
(*                                                                         *)
(* The browser client (TodoService, OutboxRepository, SyncEngine,          *)
(* ConflictService) is the variable `client`: its local todos, its outbox, *)
(* its local conflicts and the sync() calls in progress.                   *)
(***************************************************************************)
EXTENDS Integers, Sequences, FiniteSets, TLC

\* ------------------------------------------------------------------ bounds
MaxClientVersion == 2   \* client versions range over 1..MaxClientVersion
MaxBatch == 2           \* longest operations array of one request
MaxOps == 2             \* operations submitted in one behaviour
MaxCrud == 2            \* single-record CRUD writes in one behaviour
MaxResolves == 1        \* resolve/dismiss requests in one behaviour
MaxConcurrent == 2      \* resolve/dismiss requests where two of them overlap
MaxSequence == 3        \* longest operations array of a request processed alone

\* ----------------------------------------------------------------- domains
\* JavaScript null: Null where an object is expected, NullScalar where a
\* timestamp or an id is.
Null == [null |-> TRUE]
NullScalar == "null"
Tables == {"todos", "notes"}
RecordIds == {"r1"}
Titles == {"A", "B", "C"}
OpIds == {"o1", "o2"}
Reqs == {"reqA", "reqB"}
Resolvers == {"p1", "p2"}

DupMessage == "Operation already processed"
InternalMessage == "Internal server error"

\* data of the three kinds of operation (types/index.ts, TodoService payloads)
CreateData == [id : RecordIds, title : {"A"}]
UpdateData == [id : RecordIds, version : 1..MaxClientVersion, title : {"B"}]
DeleteData == [id : RecordIds, version : 1..MaxClientVersion]

SyncOperation ==
    [operationId : OpIds, action : {"CREATE"}, table : Tables, data : CreateData]
    \cup [operationId : OpIds, action : {"UPDATE"}, table : Tables, data : UpdateData]
    \cup [operationId : OpIds, action : {"DELETE"}, table : Tables, data : DeleteData]

\* ------------------------------------------------------------ the database
\* A database value: db.records[table][id] is a row or Null, db.ledger the
\* ProcessedOperation rows, db.conflicts the Conflict rows.
EmptyDb ==
    [records |-> [t \in Tables |-> [i \in RecordIds |-> Null]],
     ledger |-> {},
     conflicts |-> {}]

\* `const { id, version, ...updateData } = data`
updateData(data) == [k \in DOMAIN data \ {"id", "version"} |-> data[k]]

\* Prisma `data: { ...fields }` applied to a row: only named columns change.
ApplyFields(row, fields) ==
    [row EXCEPT
        !.title = IF "title" \in DOMAIN fields THEN fields.title ELSE @,
        !.deletedAt = IF "deletedAt" \in DOMAIN fields THEN fields.deletedAt ELSE @]

findRecordById(db, tableName, id) == db.records[tableName][id]

\* (mutation) the insert replaces a row that exists
createRecordUpsert(db, tableName, data) ==
    [threw |-> FALSE,
     db |-> [db EXCEPT !.records[tableName][data.id] =
               [id |-> data.id,
                title |-> data.title,
                version |-> 1,
                deletedAt |-> IF "deletedAt" \in DOMAIN data
                              THEN data.deletedAt ELSE NullScalar]]]

\* prisma.<model>.create({data: {...data, version: 1}}); the primary key makes
\* a second insert of the same id throw.
createRecord(db, tableName, data) ==
    IF db.records[tableName][data.id] # Null
    THEN [threw |-> TRUE, db |-> db]
    ELSE [threw |-> FALSE,
          db |-> [db EXCEPT !.records[tableName][data.id] =
                    [id |-> data.id,
                     title |-> data.title,
                     version |-> 1,
                     deletedAt |-> IF "deletedAt" \in DOMAIN data
                                   THEN data.deletedAt ELSE NullScalar]]]

\* (mutation) the soft delete leaves out `version: {increment: 1}`
deleteRecordKeepVersion(db, tableName, id, clientVersion) ==
    LET row == db.records[tableName][id] IN
    IF row = Null \/ row.version # clientVersion \/ row.deletedAt # NullScalar
    THEN [value |-> Null, db |-> db]
    ELSE LET new == [row EXCEPT !.deletedAt = "t"] IN
         [value |-> new, db |-> [db EXCEPT !.records[tableName][id] = new]]

\* (mutation) the update leaves out `version: {increment: 1}`
updateRecordKeepVersion(db, tableName, id, clientVersion, data) ==
    LET row == db.records[tableName][id] IN
    IF row = Null \/ row.version # clientVersion \/ row.deletedAt # NullScalar
    THEN [value |-> Null, db |-> db]
    ELSE LET new == ApplyFields(row, data) IN
         [value |-> new, db |-> [db EXCEPT !.records[tableName][id] = new]]

\* One UPDATE ... WHERE id AND version AND deletedAt IS NULL; no row matched
\* makes prisma throw, which the repository turns into null.
updateRecordWithVersionCheck(db, tableName, id, clientVersion, data) ==
    LET row == db.records[tableName][id] IN
    IF row = Null \/ row.version # clientVersion \/ row.deletedAt # NullScalar
    THEN [value |-> Null, db |-> db]
    ELSE LET new == [ApplyFields(row, data) EXCEPT !.version = row.version + 1] IN
         [value |-> new, db |-> [db EXCEPT !.records[tableName][id] = new]]

deleteRecordWithVersionCheck(db, tableName, id, clientVersion) ==
    LET row == db.records[tableName][id] IN
    IF row = Null \/ row.version # clientVersion \/ row.deletedAt # NullScalar
    THEN [value |-> Null, db |-> db]
    ELSE LET new == [row EXCEPT !.deletedAt = "t", !.version = row.version + 1] IN
         [value |-> new, db |-> [db EXCEPT !.records[tableName][id] = new]]

\* The Conflict row's primary key is a generated uuid, distinct from the
\* operationId; rows are never removed, so the row count gives a fresh one.
ConflictIdNames == <<"c1", "c2", "c3", "c4">>
NewConflictId(db) == ConflictIdNames[Cardinality(db.conflicts) + 1]

\* (mutation) the conflict insert also records the operation as processed
createConflictAndMark(db, operationId, tableName, recordId, serverData, clientData, serverVersion, clientVersion) ==
    IF serverData = Null \/ \E c \in db.conflicts : c.operationId = operationId
    THEN [threw |-> TRUE, db |-> db, id |-> NullScalar]
    ELSE [threw |-> FALSE,
          id |-> NewConflictId(db),
          db |-> [db EXCEPT
                    !.ledger = @ \cup {[operationId |-> operationId,
                                        action |-> "UPDATE",
                                        tableName |-> tableName]},
                    !.conflicts = @ \cup
                    {[id |-> NewConflictId(db),
                      operationId |-> operationId,
                      tableName |-> tableName,
                      recordId |-> recordId,
                      serverData |-> serverData,
                      clientData |-> clientData,
                      serverVersion |-> serverVersion,
                      clientVersion |-> clientVersion,
                      status |-> "PENDING",
                      resolvedAt |-> NullScalar,
                      resolvedData |-> Null]}]]

\* (mutation) the Conflict table without the unique index on operationId
createConflictNoUniqueIndex(db, operationId, tableName, recordId, serverData, clientData, serverVersion, clientVersion) ==
    IF serverData = Null
    THEN [threw |-> TRUE, db |-> db, id |-> NullScalar]
    ELSE [threw |-> FALSE,
          id |-> NewConflictId(db),
          db |-> [db EXCEPT !.conflicts = @ \cup
                    {[id |-> NewConflictId(db),
                      operationId |-> operationId,
                      tableName |-> tableName,
                      recordId |-> recordId,
                      serverData |-> serverData,
                      clientData |-> clientData,
                      serverVersion |-> serverVersion,
                      clientVersion |-> clientVersion,
                      status |-> "PENDING",
                      resolvedAt |-> NullScalar,
                      resolvedData |-> Null]}]]

\* prisma.conflict.create: throws on a second row with the same operationId
\* (Conflict_operationId_key) and on serverData = null (required Json column).
createConflict(db, operationId, tableName, recordId, serverData, clientData, serverVersion, clientVersion) ==
    IF serverData = Null \/ \E c \in db.conflicts : c.operationId = operationId
    THEN [threw |-> TRUE, db |-> db, id |-> NullScalar]
    ELSE [threw |-> FALSE,
          id |-> NewConflictId(db),
          db |-> [db EXCEPT !.conflicts = @ \cup
                    {[id |-> NewConflictId(db),
                      operationId |-> operationId,
                      tableName |-> tableName,
                      recordId |-> recordId,
                      serverData |-> serverData,
                      clientData |-> clientData,
                      serverVersion |-> serverVersion,
                      clientVersion |-> clientVersion,
                      status |-> "PENDING",
                      resolvedAt |-> NullScalar,
                      resolvedData |-> Null]}]]

operationExists(db, operationId) ==
    \E e \in db.ledger : e.operationId = operationId

\* (mutation) the duplicate check reads the Conflict table instead of the ledger
conflictExistsInConflictTable(db, operationId) ==
    \E c \in db.conflicts : c.operationId = operationId

\* conflictExists delegates to operationExists: it reads the ledger only.
conflictExists(db, operationId) == operationExists(db, operationId)

\* (mutation) the ProcessedOperation table without the unique index
markOperationProcessedNoUniqueIndex(db, operationId, action, tableName) ==
    [threw |-> FALSE,
     db |-> [db EXCEPT !.ledger = @ \cup
               {[operationId |-> operationId, action |-> action,
                 tableName |-> tableName]}]]

\* prisma.processedOperation.create: throws on a second row with the same
\* operationId (ProcessedOperation_operationId_key).
markOperationProcessed(db, operationId, action, tableName) ==
    IF \E e \in db.ledger : e.operationId = operationId
    THEN [threw |-> TRUE, db |-> db]
    ELSE [threw |-> FALSE,
          db |-> [db EXCEPT !.ledger = @ \cup
                    {[operationId |-> operationId, action |-> action,
                      tableName |-> tableName]}]]

\* --------------------------------------------------- SyncService, per await
\* The processing of one operation is a context c = [op, pc, serverRecord,
\* writes] advanced one repository call at a time.  pc names the call that is
\* awaited next; writes collects the tables the operation has written so far.
OperationResult(operationId, status, message, conflictId) ==
    [operationId |-> operationId, status |-> status, message |-> message,
     conflictId |-> conflictId]

Goto(db, c, pc) ==
    [db |-> db, c |-> [c EXCEPT !.pc = pc], result |-> Null]

Wrote(db, c, pc, table) ==
    [db |-> db, c |-> [c EXCEPT !.pc = pc, !.writes = @ \cup {table}],
     result |-> Null]

Return(db, c, status, message, conflictId) ==
    [db |-> db, c |-> [c EXCEPT !.pc = "next"],
     result |-> OperationResult(c.op.operationId, status, message, conflictId)]

ReturnWrote(db, c, table, status, message, conflictId) ==
    [db |-> db, c |-> [c EXCEPT !.pc = "next", !.writes = @ \cup {table}],
     result |-> OperationResult(c.op.operationId, status, message, conflictId)]

\* handleCreate: createRecord, then markOperationProcessed; its own catch
\* reports either failure with the error's message.
handleCreate(db, c) ==
    IF c.pc = "create"
    THEN LET r == createRecord(db, c.op.table, c.op.data) IN
         IF r.threw
         THEN Return(db, c, "ERROR", "Unique constraint failed", NullScalar)
         ELSE Wrote(r.db, c, "mark", "record")
    ELSE LET m == markOperationProcessed(db, c.op.operationId, "CREATE", c.op.table) IN
         IF m.threw
         THEN Return(db, c, "ERROR", "Unique constraint failed", NullScalar)
         ELSE ReturnWrote(m.db, c, "ledger", "APPLIED", "Record created successfully", NullScalar)

\* The createConflict call shared by handleUpdate and handleDelete; a throw is
\* caught by processSingleOperation.
ConflictBranch(db, c, message) ==
    LET sr == c.serverRecord
        k == createConflict(db, c.op.operationId, c.op.table, c.op.data.id,
                            sr, c.op.data,
                            IF sr = Null THEN 0 ELSE sr.version,
                            c.op.data.version) IN
    IF k.threw
    THEN Return(db, c, "ERROR", InternalMessage, NullScalar)
    ELSE ReturnWrote(k.db, c, "conflict", "CONFLICT", message, k.id)

handleUpdate(db, c) ==
    CASE c.pc = "find" ->
            LET sr == findRecordById(db, c.op.table, c.op.data.id)
                c1 == [c EXCEPT !.serverRecord = sr] IN
            IF sr = Null THEN Goto(db, c1, "conflict")
            ELSE IF sr.version # c.op.data.version THEN Goto(db, c1, "conflict")
            ELSE Goto(db, c1, "write")
      [] c.pc = "conflict" ->
            ConflictBranch(db, c, IF c.serverRecord = Null
                                  THEN "Record not found on server"
                                  ELSE "Version conflict detected")
      [] c.pc = "write" ->
            LET u == updateRecordWithVersionCheck(db, c.op.table, c.op.data.id,
                        c.op.data.version, updateData(c.op.data)) IN
            IF u.value = Null
            THEN Return(db, c, "ERROR", "Failed to update record (race condition)", NullScalar)
            ELSE Wrote(u.db, c, "mark", "record")
      [] OTHER ->
            LET m == markOperationProcessed(db, c.op.operationId, "UPDATE", c.op.table) IN
            IF m.threw
            THEN Return(db, c, "ERROR", InternalMessage, NullScalar)
            ELSE ReturnWrote(m.db, c, "ledger", "APPLIED", "Record updated successfully", NullScalar)

\* (mutation) the tolerant branch forgets tombstones
AbsentOnly(sr) == sr = Null

\* `!serverRecord || serverRecord.deletedAt`
AlreadyDeleted(sr) == sr = Null \/ sr.deletedAt # NullScalar

handleDelete(db, c) ==
    CASE c.pc = "find" ->
            LET sr == findRecordById(db, c.op.table, c.op.data.id)
                c1 == [c EXCEPT !.serverRecord = sr] IN
            IF AlreadyDeleted(sr) THEN Goto(db, c1, "mark")
            ELSE IF sr.version # c.op.data.version THEN Goto(db, c1, "conflict")
            ELSE Goto(db, c1, "write")
      [] c.pc = "conflict" ->
            ConflictBranch(db, c, "Version conflict detected")
      [] c.pc = "write" ->
            LET d == deleteRecordWithVersionCheck(db, c.op.table, c.op.data.id,
                        c.op.data.version) IN
            IF d.value = Null
            THEN Return(db, c, "ERROR", "Failed to delete record (race condition)", NullScalar)
            ELSE Wrote(d.db, c, "mark", "record")
      [] OTHER ->
            LET m == markOperationProcessed(db, c.op.operationId, "DELETE", c.op.table) IN
            IF m.threw
            THEN Return(db, c, "ERROR", InternalMessage, NullScalar)
            ELSE ReturnWrote(m.db, c, "ledger", "APPLIED",
                             IF AlreadyDeleted(c.serverRecord)
                             THEN "Record already deleted"
                             ELSE "Record deleted successfully", NullScalar)

\* processSingleOperation: the duplicate check, then the handler of the action.
processSingleOperation(db, c) ==
    IF c.pc = "check"
    THEN IF conflictExists(db, c.op.operationId)
         THEN Return(db, c, "ERROR", DupMessage, NullScalar)
         ELSE Goto(db, c, IF c.op.action = "CREATE" THEN "create" ELSE "find")
    ELSE CASE c.op.action = "CREATE" -> handleCreate(db, c)
           [] c.op.action = "UPDATE" -> handleUpdate(db, c)
           [] OTHER -> handleDelete(db, c)

\* One operation run from its duplicate check to its result with nothing in
\* between, and a whole array run that way (processSyncOperations' loop).
RECURSIVE RunOperation(_, _)
RunOperation(db, c) ==
    LET s == processSingleOperation(db, c) IN
    IF s.result # Null THEN s ELSE RunOperation(s.db, s.c)

NewContext(op) == [op |-> op, pc |-> "check", serverRecord |-> Null, writes |-> {}]

RECURSIVE processSyncOperations(_, _)
processSyncOperations(db, operations) ==
    IF operations = <<>>
    THEN [db |-> db, results |-> <<>>]
    ELSE LET s == RunOperation(db, NewContext(Head(operations)))
             rest == processSyncOperations(s.db, Tail(operations)) IN
         [db |-> rest.db, results |-> <<s.result>> \o rest.results]

\* ------------------------------------------------------- ConflictsService
CustomData == [id : RecordIds, title : {"C"}]

ResolveConflictDTO ==
    [resolution : {"CLIENT", "SERVER"}, resolvedData : {Null}]
    \cup [resolution : {"CUSTOM"}, resolvedData : CustomData \cup {Null}]

findById(db, id) ==
    IF \E k \in db.conflicts : k.id = id
    THEN CHOOSE k \in db.conflicts : k.id = id
    ELSE Null

\* (mutation) resolveConflict without the test of conflict.status
ResolvePrepareAnyStatus(db, id, dto) ==
    LET conflict == findById(db, id) IN
    IF conflict = Null THEN [code |-> 404, conflict |-> Null, dataToApply |-> Null]
    ELSE IF dto.resolution = "CLIENT"
    THEN [code |-> 0, conflict |-> conflict, dataToApply |-> conflict.clientData]
    ELSE IF dto.resolution = "SERVER"
    THEN [code |-> 0, conflict |-> conflict, dataToApply |-> conflict.serverData]
    ELSE IF dto.resolvedData = Null
    THEN [code |-> 400, conflict |-> conflict, dataToApply |-> Null]
    ELSE [code |-> 0, conflict |-> conflict, dataToApply |-> dto.resolvedData]

\* (mutation) a CUSTOM resolution without resolvedData applies the client's data
ResolvePrepareCustomOptional(db, id, dto) ==
    LET conflict == findById(db, id) IN
    IF conflict = Null THEN [code |-> 404, conflict |-> Null, dataToApply |-> Null]
    ELSE IF conflict.status # "PENDING"
    THEN [code |-> 400, conflict |-> conflict, dataToApply |-> Null]
    ELSE IF dto.resolution = "SERVER"
    THEN [code |-> 0, conflict |-> conflict, dataToApply |-> conflict.serverData]
    ELSE IF dto.resolution = "CLIENT" \/ dto.resolvedData = Null
    THEN [code |-> 0, conflict |-> conflict, dataToApply |-> conflict.clientData]
    ELSE [code |-> 0, conflict |-> conflict, dataToApply |-> dto.resolvedData]

\* resolveConflict up to the transaction: the conflict is read and checked
\* outside it.  Gives the status code of an early return, or 0 and the data
\* to apply.
ResolvePrepare(db, id, dto) ==
    LET conflict == findById(db, id) IN
    IF conflict = Null THEN [code |-> 404, conflict |-> Null, dataToApply |-> Null]
    ELSE IF conflict.status # "PENDING"
    THEN [code |-> 400, conflict |-> conflict, dataToApply |-> Null]
    ELSE IF dto.resolution = "CLIENT"
    THEN [code |-> 0, conflict |-> conflict, dataToApply |-> conflict.clientData]
    ELSE IF dto.resolution = "SERVER"
    THEN [code |-> 0, conflict |-> conflict, dataToApply |-> conflict.serverData]
    ELSE IF dto.resolvedData = Null
    THEN [code |-> 400, conflict |-> conflict, dataToApply |-> Null]
    ELSE [code |-> 0, conflict |-> conflict, dataToApply |-> dto.resolvedData]

\* (mutation) the record update writes the payload's version and then adds 1
ResolveTransactionPayloadVersion(db, conflict, dataToApply) ==
    LET row == db.records[conflict.tableName][conflict.recordId] IN
    IF dataToApply = Null \/ row = Null
    THEN [code |-> 500, db |-> db]
    ELSE LET base == IF "version" \in DOMAIN dataToApply
                     THEN dataToApply.version ELSE row.version
             new == [ApplyFields(row, updateData(dataToApply))
                        EXCEPT !.version = base + 1]
             cur == findById(db, conflict.id)
             resolved == [cur EXCEPT !.status = "RESOLVED",
                                     !.resolvedData = dataToApply,
                                     !.resolvedAt = "t"] IN
         [code |-> 200,
          db |-> [db EXCEPT
                    !.records[conflict.tableName][conflict.recordId] = new,
                    !.conflicts = (@ \ {cur}) \cup {resolved}]]

\* The prisma.$transaction of resolveConflict: the record update (no version
\* or deletedAt condition) and the conflict update commit together; a throw
\* (destructuring null, no such record) rolls back and is answered with 500.
ResolveTransaction(db, conflict, dataToApply) ==
    LET row == db.records[conflict.tableName][conflict.recordId] IN
    IF dataToApply = Null \/ row = Null
    THEN [code |-> 500, db |-> db]
    ELSE LET new == [ApplyFields(row, updateData(dataToApply))
                        EXCEPT !.version = row.version + 1]
             cur == findById(db, conflict.id)
             resolved == [cur EXCEPT !.status = "RESOLVED",
                                     !.resolvedData = dataToApply,
                                     !.resolvedAt = "t"] IN
         [code |-> 200,
          db |-> [db EXCEPT
                    !.records[conflict.tableName][conflict.recordId] = new,
                    !.conflicts = (@ \ {cur}) \cup {resolved}]]

\* dismissConflict up to the write.
DismissPrepare(db, id) ==
    LET conflict == findById(db, id) IN
    IF conflict = Null THEN [code |-> 404, conflict |-> Null]
    ELSE IF conflict.status # "PENDING" THEN [code |-> 400, conflict |-> conflict]
    ELSE [code |-> 0, conflict |-> conflict]

\* (mutation) the dismissal also bumps the version of the conflict's record
dismissTouchingRecord(db, id) ==
    LET cur == findById(db, id) IN
    IF cur = Null
    THEN [value |-> Null, db |-> db]
    ELSE LET d == [cur EXCEPT !.status = "DISMISSED", !.resolvedAt = "t"] IN
         [value |-> d,
          db |-> [db EXCEPT
                    !.conflicts = (@ \ {cur}) \cup {d},
                    !.records[cur.tableName][cur.recordId].version = @ + 1]]

\* ConflictsRepository.dismiss
dismiss(db, id) ==
    LET cur == findById(db, id) IN
    IF cur = Null
    THEN [value |-> Null, db |-> db]
    ELSE LET d == [cur EXCEPT !.status = "DISMISSED", !.resolvedAt = "t"] IN
         [value |-> d, db |-> [db EXCEPT !.conflicts = (@ \ {cur}) \cup {d}]]

\* ------------------------------------------------ BaseRepository (CRUD)
\* model.create({data: {...data, version: 1}}) with TodosService's data
\* {title, content, status}: the id column defaults to a new uuid.
create(db, tableName, id, data) ==
    [db EXCEPT !.records[tableName][id] =
        [id |-> id, title |-> data.title, version |-> 1, deletedAt |-> NullScalar]]

\* (mutation) the update's where clause without `deletedAt: null`
updateWithoutTombstoneCheck(db, tableName, id, currentVersion, data) ==
    LET row == db.records[tableName][id] IN
    IF row = Null \/ row.version # currentVersion
    THEN [value |-> Null, db |-> db]
    ELSE LET new == [ApplyFields(row, data) EXCEPT !.version = row.version + 1] IN
         [value |-> new, db |-> [db EXCEPT !.records[tableName][id] = new]]

updateWithVersionCheck(db, tableName, id, currentVersion, data) ==
    updateRecordWithVersionCheck(db, tableName, id, currentVersion, data)

softDeleteWithVersionCheck(db, tableName, id, currentVersion) ==
    deleteRecordWithVersionCheck(db, tableName, id, currentVersion)

\* ------------------------------------- TodosService / NotesService (CRUD)
\* UpdateTodoSchema / DeleteTodoSchema: version is z.number().int().positive()
VersionSchema(version) == version >= 1

\* updateTodo / updateNote: `const {version, ...updateData} = dto`, the
\* versioned write, 409 when it gave null.  The controller answers 400 when
\* the body fails the schema.
updateTodo(db, tableName, id, dto) ==
    IF ~VersionSchema(dto.version) THEN [code |-> 400, db |-> db]
    ELSE LET u == updateWithVersionCheck(db, tableName, id, dto.version,
                    [k \in DOMAIN dto \ {"version"} |-> dto[k]]) IN
         IF u.value = Null THEN [code |-> 409, db |-> db]
         ELSE [code |-> 200, db |-> u.db]

\* deleteTodo / deleteNote
deleteTodo(db, tableName, id, version) ==
    IF ~VersionSchema(version) THEN [code |-> 400, db |-> db]
    ELSE LET d == softDeleteWithVersionCheck(db, tableName, id, version) IN
         IF d.value = Null THEN [code |-> 409, db |-> db]
         ELSE [code |-> 200, db |-> d.db]

\* ------------------------------------------------------------------- state
VARIABLES
    records,    \* Todo and Note tables
    ledger,     \* ProcessedOperation table
    conflicts,  \* Conflict table
    req,        \* the POST /api/sync requests in flight
    resolver,   \* the PUT /api/conflicts/:id/(resolve|dismiss) requests in flight
    used,       \* how many inputs the environment has supplied
    effects,    \* history: operationIds whose operation wrote a record row
    applied,    \* history: per conflict id, the resolutions that wrote its record
    hist,       \* history of a client's first submission (resubmission runs)
    client      \* the browser client: local tables, outbox, SyncEngine

vars == <<records, ledger, conflicts, req, resolver, used, effects, applied, hist,
          client>>

DB == [records |-> records, ledger |-> ledger, conflicts |-> conflicts]

SetDb(db) ==
    /\ records' = db.records
    /\ ledger' = db.ledger
    /\ conflicts' = db.conflicts

\* the ids a request to /api/conflicts/:id may name
ConflictIds == {ConflictIdNames[i] : i \in 1..Cardinality(OpIds)}

NoContext == [op |-> Null, pc |-> "next", serverRecord |-> Null, writes |-> {}]

IdleRequest ==
    [status |-> "idle", operations |-> <<>>, results |-> <<>>, c |-> NoContext]

IdleResolver ==
    [pc |-> "idle", conflict |-> Null, dataToApply |-> Null, code |-> 0]

NoHist == [phase |-> "none", db0 |-> Null, operations |-> <<>>, results |-> <<>>,
           done |-> 0, dbCut |-> Null, db1 |-> Null, code |-> 0, summary |-> Null]

\* the browser client before anything was created: empty local tables and
\* outbox, SyncEngine.isSyncing = false, NetworkDetector._isOnline = false
Callers == {"user", "timer"}

IdleCall == [pc |-> "idle", operations |-> <<>>, results |-> <<>>, message |-> ""]

NoClient ==
    [todos |-> [i \in RecordIds |-> Null],
     outbox |-> <<>>,
     conflicts |-> {},
     isSyncing |-> FALSE,
     isOnline |-> FALSE,
     call |-> [c \in Callers |-> IdleCall],
     alert |-> ""]

Init ==
    /\ records = EmptyDb.records
    /\ ledger = {}
    /\ conflicts = {}
    /\ req = [r \in Reqs |-> IdleRequest]
    /\ resolver = [p \in Resolvers |-> IdleResolver]
    /\ used = [ops |-> 0, crud |-> 0, resolves |-> 0]
    /\ effects = {}
    /\ applied = [id \in ConflictIds |-> 0]
    /\ hist = NoHist
    /\ client = NoClient

\* --------------------------------------------------------- POST /api/sync
\* SyncController.sync accepts the body and processSyncOperations starts on
\* its first element.  The elements of the operations array are drawn when
\* the loop reaches them.
Receive(r, op) ==
    /\ req[r].status = "idle"
    /\ used.ops < MaxOps
    /\ req' = [req EXCEPT ![r] = [status |-> "running", operations |-> <<op>>,
                                  results |-> <<>>, c |-> NewContext(op)]]
    /\ used' = [used EXCEPT !.ops = @ + 1]
    /\ UNCHANGED <<records, ledger, conflicts, resolver, effects, applied, hist, client>>

\* `for (const operation of operations)`: the next element.
NextOperation(r, op) ==
    /\ req[r].status = "running"
    /\ req[r].c.pc = "next"
    /\ Len(req[r].results) = Len(req[r].operations)
    /\ Len(req[r].operations) < MaxBatch
    /\ used.ops < MaxOps
    /\ req' = [req EXCEPT ![r].operations = Append(@, op),
                          ![r].c = NewContext(op)]
    /\ used' = [used EXCEPT !.ops = @ + 1]
    /\ UNCHANGED <<records, ledger, conflicts, resolver, effects, applied, hist, client>>

\* One awaited repository call of the operation in progress.
Advance(r) ==
    LET s == processSingleOperation(DB, req[r].c) IN
    /\ SetDb(s.db)
    /\ req' = [req EXCEPT ![r].c = s.c,
                          ![r].results = IF s.result = Null THEN @
                                         ELSE Append(@, s.result)]
    /\ effects' = IF "record" \in s.c.writes \ req[r].c.writes
                  THEN effects \cup {req[r].c.op.operationId}
                  ELSE effects
    /\ UNCHANGED <<resolver, used, applied, hist, client>>

At(r, pc) == req[r].status = "running" /\ req[r].c.pc = pc

CheckDuplicate(r) == At(r, "check") /\ Advance(r)
CreateRecord(r) == At(r, "create") /\ Advance(r)
FindRecord(r) == At(r, "find") /\ Advance(r)
CreateConflict(r) == At(r, "conflict") /\ Advance(r)
WriteRecord(r) == At(r, "write") /\ Advance(r)
MarkProcessed(r) == At(r, "mark") /\ Advance(r)

\* res.status(200).json({results, summary}) once the loop is over.
Respond(r) ==
    /\ At(r, "next")
    /\ Len(req[r].results) = Len(req[r].operations)
    /\ req' = [req EXCEPT ![r] = IdleRequest]
    /\ UNCHANGED <<records, ledger, conflicts, resolver, used, effects, applied, hist, client>>

\* The server process dies: requests in flight are lost, the tables stay.
Crash ==
    /\ \/ \E r \in Reqs : req[r].status = "running"
       \/ \E p \in Resolvers : resolver[p].pc # "idle"
    /\ req' = [r \in Reqs |-> IdleRequest]
    /\ resolver' = [p \in Resolvers |-> IdleResolver]
    /\ UNCHANGED <<records, ledger, conflicts, used, effects, applied, hist, client>>

\* ------------------------------------------ PUT /api/conflicts/:id/resolve
\* The request up to the transaction: findById and the checks.  limit bounds
\* the requests of one behaviour.
ResolveRequest(p, id, dto, limit) ==
    /\ resolver[p].pc = "idle"
    /\ used.resolves < limit
    /\ LET q == ResolvePrepare(DB, id, dto) IN
       resolver' = [resolver EXCEPT ![p] =
                       IF q.code = 0
                       THEN [pc |-> "resolveTx", conflict |-> q.conflict,
                             dataToApply |-> q.dataToApply, code |-> 0]
                       ELSE [IdleResolver EXCEPT !.code = q.code,
                                                 !.conflict = q.conflict]]
    /\ used' = [used EXCEPT !.resolves = @ + 1]
    /\ UNCHANGED <<records, ledger, conflicts, req, effects, applied, hist, client>>

\* prisma.$transaction(...) and the response.
ResolveCommit(p) ==
    /\ resolver[p].pc = "resolveTx"
    /\ LET t == ResolveTransaction(DB, resolver[p].conflict, resolver[p].dataToApply) IN
       /\ SetDb(t.db)
       /\ resolver' = [resolver EXCEPT ![p] = [IdleResolver EXCEPT !.code = t.code]]
       /\ applied' = IF t.code = 200
                     THEN [applied EXCEPT ![resolver[p].conflict.id] = @ + 1]
                     ELSE applied
    /\ UNCHANGED <<req, used, effects, hist, client>>

\* ------------------------------------------ PUT /api/conflicts/:id/dismiss
DismissRequest(p, id, limit) ==
    /\ resolver[p].pc = "idle"
    /\ used.resolves < limit
    /\ LET q == DismissPrepare(DB, id) IN
       resolver' = [resolver EXCEPT ![p] =
                       IF q.code = 0
                       THEN [pc |-> "dismissTx", conflict |-> q.conflict,
                             dataToApply |-> Null, code |-> 0]
                       ELSE [IdleResolver EXCEPT !.code = q.code,
                                                 !.conflict = q.conflict]]
    /\ used' = [used EXCEPT !.resolves = @ + 1]
    /\ UNCHANGED <<records, ledger, conflicts, req, effects, applied, hist, client>>

DismissCommit(p) ==
    /\ resolver[p].pc = "dismissTx"
    /\ LET d == dismiss(DB, resolver[p].conflict.id) IN
       /\ SetDb(d.db)
       /\ resolver' = [resolver EXCEPT ![p] =
                         [IdleResolver EXCEPT !.code = IF d.value = Null THEN 500 ELSE 200]]
    /\ UNCHANGED <<req, used, effects, applied, hist, client>>

\* -------------------------------- PUT / DELETE /api/todos/:id, /api/notes/:id
CrudCreate(t, id, title) ==
    /\ used.crud < MaxCrud
    /\ records[t][id] = Null
    /\ SetDb(create(DB, t, id, [title |-> title]))
    /\ used' = [used EXCEPT !.crud = @ + 1]
    /\ UNCHANGED <<req, resolver, effects, applied, hist, client>>

CrudUpdate(t, id, version, title) ==
    /\ used.crud < MaxCrud
    /\ SetDb(updateWithVersionCheck(DB, t, id, version, [title |-> title]).db)
    /\ used' = [used EXCEPT !.crud = @ + 1]
    /\ UNCHANGED <<req, resolver, effects, applied, hist, client>>

CrudDelete(t, id, version) ==
    /\ used.crud < MaxCrud
    /\ SetDb(softDeleteWithVersionCheck(DB, t, id, version).db)
    /\ used' = [used EXCEPT !.crud = @ + 1]
    /\ UNCHANGED <<req, resolver, effects, applied, hist, client>>

Next ==
    \/ \E r \in Reqs, op \in SyncOperation : Receive(r, op)
    \/ \E r \in Reqs, op \in SyncOperation : NextOperation(r, op)
    \/ \E r \in Reqs : CheckDuplicate(r)
    \/ \E r \in Reqs : CreateRecord(r)
    \/ \E r \in Reqs : FindRecord(r)
    \/ \E r \in Reqs : CreateConflict(r)
    \/ \E r \in Reqs : WriteRecord(r)
    \/ \E r \in Reqs : MarkProcessed(r)
    \/ \E r \in Reqs : Respond(r)
    \/ Crash
    \/ \E id \in ConflictIds, dto \in ResolveConflictDTO :
          ResolveRequest("p1", id, dto, MaxResolves)
    \/ ResolveCommit("p1")
    \/ \E id \in ConflictIds : DismissRequest("p1", id, MaxResolves)
    \/ DismissCommit("p1")
    \/ \E t \in Tables, id \in RecordIds : CrudCreate(t, id, "A")
    \/ \E t \in Tables, id \in RecordIds, v \in 1..MaxClientVersion :
          CrudUpdate(t, id, v, "B")
    \/ \E t \in Tables, id \in RecordIds, v \in 1..MaxClientVersion :
          CrudDelete(t, id, v)

Spec == Init /\ [][Next]_vars

\* ------------------------------------------- a client that submits twice
\* One client, nothing else running: it submits an array S, the processing
\* ends after a prefix of S (all of S when the suffix is empty), and the
\* client submits S again.  hist keeps the database before the first
\* submission (db0), S, the first results, the length of the completed prefix
\* and the database when the first processing ended (dbCut).
Client == "reqA"

OperationIds(operations) == {operations[i].operationId : i \in 1..Len(operations)}

Suffixes(n) ==
    {<<>>} \cup (IF n >= 1 THEN {<<op>> : op \in SyncOperation} ELSE {})

SeedRecord(t, id) ==
    /\ hist.phase = "none"
    /\ CrudCreate(t, id, "A")

FirstSubmission(op) ==
    /\ hist.phase = "none"
    /\ req[Client].status = "idle"
    /\ req' = [req EXCEPT ![Client] = [status |-> "running", operations |-> <<op>>,
                                       results |-> <<>>, c |-> NewContext(op)]]
    /\ hist' = [hist EXCEPT !.phase = "first", !.db0 = DB]
    /\ UNCHANGED <<records, ledger, conflicts, resolver, used, effects, applied, client>>

FirstNextOperation(op) ==
    /\ hist.phase = "first"
    /\ op.operationId \notin OperationIds(req[Client].operations)
    /\ NextOperation(Client, op)

\* The first processing is over after Len(results) operations; the client
\* still holds the whole array and posts it again.
Resubmit(suffix) ==
    /\ hist.phase = "first"
    /\ At(Client, "next")
    /\ Len(req[Client].results) = Len(req[Client].operations)
    /\ Len(req[Client].operations) + Len(suffix) <= MaxBatch
    /\ \A i \in 1..Len(suffix) :
          suffix[i].operationId \notin OperationIds(req[Client].operations)
    /\ LET S == req[Client].operations \o suffix IN
       /\ hist' = [phase |-> "second", db0 |-> hist.db0, operations |-> S,
                   results |-> req[Client].results,
                   done |-> Len(req[Client].results), dbCut |-> DB]
       /\ req' = [req EXCEPT ![Client] = [status |-> "running", operations |-> S,
                                          results |-> <<>>, c |-> NewContext(S[1])]]
    /\ UNCHANGED <<records, ledger, conflicts, resolver, used, effects, applied, client>>

\* `for (const operation of operations)` over an array known in full.
LoopNext(r) ==
    /\ At(r, "next")
    /\ Len(req[r].results) < Len(req[r].operations)
    /\ req' = [req EXCEPT ![r].c = NewContext(req[r].operations[Len(req[r].results) + 1])]
    /\ UNCHANGED <<records, ledger, conflicts, resolver, used, effects, applied, hist, client>>

SecondResponse ==
    /\ hist.phase = "second"
    /\ At(Client, "next")
    /\ Len(req[Client].results) = Len(req[Client].operations)
    /\ req' = [req EXCEPT ![Client].status = "responded"]
    /\ hist' = [hist EXCEPT !.phase = "end"]
    /\ UNCHANGED <<records, ledger, conflicts, resolver, used, effects, applied, client>>

NextRetry ==
    \/ \E t \in Tables, id \in RecordIds : SeedRecord(t, id)
    \/ \E op \in SyncOperation : FirstSubmission(op)
    \/ \E op \in SyncOperation : FirstNextOperation(op)
    \/ CheckDuplicate(Client)
    \/ CreateRecord(Client)
    \/ FindRecord(Client)
    \/ CreateConflict(Client)
    \/ WriteRecord(Client)
    \/ MarkProcessed(Client)
    \/ \E suffix \in Suffixes(MaxBatch - 1) : Resubmit(suffix)
    \/ LoopNext(Client)
    \/ SecondResponse

SpecRetry == Init /\ [][NextRetry]_vars

\* ------------------------------- conflicts under two resolving administrators
\* One sync client raises the conflicts; two PUT /api/conflicts/:id/... requests
\* may be in flight together, next to the single-record writers.  All of
\* them work on the Todo table.
Syncer == "reqA"
TodoOperation == {op \in SyncOperation : op.table = "todos"}

NextResolve ==
    \/ \E op \in TodoOperation : Receive(Syncer, op)
    \/ CheckDuplicate(Syncer)
    \/ CreateRecord(Syncer)
    \/ FindRecord(Syncer)
    \/ CreateConflict(Syncer)
    \/ WriteRecord(Syncer)
    \/ MarkProcessed(Syncer)
    \/ Respond(Syncer)
    \/ Crash
    \/ \E p \in Resolvers, id \in ConflictIds, dto \in ResolveConflictDTO :
          ResolveRequest(p, id, dto, MaxConcurrent)
    \/ \E p \in Resolvers : ResolveCommit(p)
    \/ \E p \in Resolvers, id \in ConflictIds : DismissRequest(p, id, MaxConcurrent)
    \/ \E p \in Resolvers : DismissCommit(p)
    \/ \E t \in {"todos"}, id \in RecordIds : CrudCreate(t, id, "A")
    \/ \E t \in {"todos"}, id \in RecordIds, v \in 1..MaxClientVersion :
          CrudUpdate(t, id, v, "B")
    \/ \E t \in {"todos"}, id \in RecordIds, v \in 1..MaxClientVersion :
          CrudDelete(t, id, v)

SpecResolve == Init /\ [][NextResolve]_vars

\* ------------------------------------ the conflict of an absent record
\* The Conflict row that the absent-record branch of handleUpdate asks
\* createConflict to store: serverData null, serverVersion 0.  The resolver's
\* requests run against a database that holds this row.
AbsentConflict(t, data) ==
    [id |-> ConflictIdNames[1],
     operationId |-> "o1",
     tableName |-> t,
     recordId |-> data.id,
     serverData |-> Null,
     clientData |-> data,
     serverVersion |-> 0,
     clientVersion |-> data.version,
     status |-> "PENDING",
     resolvedAt |-> NullScalar,
     resolvedData |-> Null]

InitAbsent ==
    /\ records = EmptyDb.records
    /\ ledger = {}
    /\ \E t \in Tables, data \in UpdateData : conflicts = {AbsentConflict(t, data)}
    /\ req = [r \in Reqs |-> IdleRequest]
    /\ resolver = [p \in Resolvers |-> IdleResolver]
    /\ used = [ops |-> 0, crud |-> 0, resolves |-> 0]
    /\ effects = {}
    /\ applied = [id \in ConflictIds |-> 0]
    /\ hist = NoHist
    /\ client = NoClient

NextAbsent ==
    \/ \E p \in Resolvers, id \in ConflictIds, dto \in ResolveConflictDTO :
          ResolveRequest(p, id, dto, MaxConcurrent)
    \/ \E p \in Resolvers : ResolveCommit(p)
    \/ \E p \in Resolvers, id \in ConflictIds : DismissRequest(p, id, MaxConcurrent)
    \/ \E p \in Resolvers : DismissCommit(p)
    \/ \E t \in Tables, id \in RecordIds : CrudCreate(t, id, "A")
    \/ \E t \in Tables, id \in RecordIds, v \in 1..MaxClientVersion :
          CrudUpdate(t, id, v, "B")
    \/ \E t \in Tables, id \in RecordIds, v \in 1..MaxClientVersion :
          CrudDelete(t, id, v)
    \/ Crash

SpecAbsent == InitAbsent /\ [][NextAbsent]_vars

\* ------------------------------------------- one request, a longer array
\* One client posts an array of up to MaxSequence operations on todos, each
\* with an operationId of its own, and nothing else runs while the loop of
\* processSyncOperations works through it.
BatchOpIds == <<"o1", "o2", "o3", "o4">>

BatchOperation(i) ==
    [operationId : {BatchOpIds[i]}, action : {"CREATE"}, table : {"todos"},
     data : CreateData]
    \cup [operationId : {BatchOpIds[i]}, action : {"UPDATE"}, table : {"todos"},
          data : UpdateData]
    \cup [operationId : {BatchOpIds[i]}, action : {"DELETE"}, table : {"todos"},
          data : DeleteData]

Batches ==
    UNION {{ops \in [1..n -> UNION {BatchOperation(i) : i \in 1..n}] :
              \A i \in 1..n : ops[i] \in BatchOperation(i)} : n \in 1..MaxSequence}

SubmitBatch(ops) ==
    /\ hist.phase = "none"
    /\ req[Client].status = "idle"
    /\ req' = [req EXCEPT ![Client] = [status |-> "running", operations |-> ops,
                                       results |-> <<>>, c |-> NewContext(ops[1])]]
    /\ hist' = [hist EXCEPT !.phase = "batch", !.db0 = DB, !.operations = ops]
    /\ UNCHANGED <<records, ledger, conflicts, resolver, used, effects, applied, client>>

BatchResponse ==
    /\ hist.phase = "batch"
    /\ At(Client, "next")
    /\ Len(req[Client].results) = Len(req[Client].operations)
    /\ req' = [req EXCEPT ![Client].status = "responded"]
    /\ hist' = [hist EXCEPT !.phase = "end", !.results = req[Client].results]
    /\ UNCHANGED <<records, ledger, conflicts, resolver, used, effects, applied, client>>

NextBatch ==
    \/ \E t \in Tables, id \in RecordIds : SeedRecord(t, id)
    \/ \E ops \in Batches : SubmitBatch(ops)
    \/ CheckDuplicate(Client)
    \/ CreateRecord(Client)
    \/ FindRecord(Client)
    \/ CreateConflict(Client)
    \/ WriteRecord(Client)
    \/ MarkProcessed(Client)
    \/ LoopNext(Client)
    \/ BatchResponse

SpecBatch == Init /\ [][NextBatch]_vars

\* ------------------------------------------- the wire: SyncController.sync
\* One POST /api/sync from its body to its response, nothing else running.
\* hist keeps the database before the request (db0), the body as posted
\* (operations) and the response: status code, results and summary.
MaxOperations == 100    \* `.max(100, ...)` of SyncRequestSchema
MaxShort == 2           \* longest body whose elements are chosen freely

\* operationIds of the long bodies, one per position
LongOpIds ==
    <<"u001", "u002", "u003", "u004", "u005", "u006", "u007", "u008",
      "u009", "u010", "u011", "u012", "u013", "u014", "u015", "u016",
      "u017", "u018", "u019", "u020", "u021", "u022", "u023", "u024",
      "u025", "u026", "u027", "u028", "u029", "u030", "u031", "u032",
      "u033", "u034", "u035", "u036", "u037", "u038", "u039", "u040",
      "u041", "u042", "u043", "u044", "u045", "u046", "u047", "u048",
      "u049", "u050", "u051", "u052", "u053", "u054", "u055", "u056",
      "u057", "u058", "u059", "u060", "u061", "u062", "u063", "u064",
      "u065", "u066", "u067", "u068", "u069", "u070", "u071", "u072",
      "u073", "u074", "u075", "u076", "u077", "u078", "u079", "u080",
      "u081", "u082", "u083", "u084", "u085", "u086", "u087", "u088",
      "u089", "u090", "u091", "u092", "u093", "u094", "u095", "u096",
      "u097", "u098", "u099", "u100", "u101", "u102">>

NotUuid == "not-a-uuid"
\* the strings `z.string().uuid()` accepts
Uuids == OpIds \cup {LongOpIds[i] : i \in 1..Len(LongOpIds)}

\* z.object({operationId: uuid, action: enum, table: enum, data: record})
SyncOperationSchema(op) ==
    /\ op.operationId \in Uuids
    /\ op.action \in {"CREATE", "UPDATE", "DELETE"}
    /\ op.table \in Tables

\* (mutation) the operations array without `.max(100)`
SyncRequestSchemaNoMax(body) ==
    /\ Len(body) >= 1
    /\ \A i \in 1..Len(body) : SyncOperationSchema(body[i])

\* z.object({operations: z.array(SyncOperationSchema).min(1).max(100)}):
\* TRUE when parse returns, FALSE when it throws.
SyncRequestSchema(body) ==
    /\ Len(body) >= 1
    /\ Len(body) <= MaxOperations
    /\ \A i \in 1..Len(body) : SyncOperationSchema(body[i])

\* Bodies: every array of up to MaxShort elements, an element being any
\* operation or one whose operationId is no uuid; and arrays of one operation
\* repeated under operationIds of its own, of the lengths around the maximum.
\* the whole local row, as queueCreate sends it, with any version and deletedAt
ClientRow ==
    [id : RecordIds, title : {"A"}, version : 1..MaxClientVersion,
     deletedAt : {NullScalar, "t"}]

ShortElement ==
    SyncOperation
    \cup [operationId : {NotUuid}, action : {"CREATE"}, table : {"todos"}, data : CreateData]
    \cup [operationId : OpIds, action : {"CREATE"}, table : {"todos"}, data : ClientRow]

ShortBodies ==
    {<<>>} \cup UNION {[1..n -> ShortElement] : n \in 1..MaxShort}

LongBody(n, op) ==
    [i \in 1..n |-> [op EXCEPT !.operationId = LongOpIds[i]]]

LongBodies ==
    {LongBody(n, op) : n \in (MaxOperations - 1)..(MaxOperations + 1),
                       op \in {o \in TodoOperation : o.operationId = "o1"}}

Bodies == ShortBodies \cup LongBodies

\* results.filter((r) => r.status === status)
filter(results, status) == SelectSeq(results, LAMBDA r : r.status = status)

\* (mutation) the summary counts the conflicts among the errors
summaryConflictsAsErrors(results) ==
    [total |-> Len(results),
     applied |-> Len(filter(results, "APPLIED")),
     conflicts |-> 0,
     errors |-> Len(filter(results, "ERROR")) + Len(filter(results, "CONFLICT"))]

\* the summary object of the 200 response
summary(results) ==
    [total |-> Len(results),
     applied |-> Len(filter(results, "APPLIED")),
     conflicts |-> Len(filter(results, "CONFLICT")),
     errors |-> Len(filter(results, "ERROR"))]

\* SyncRequestSchema.parse(req.body): a throw is answered 400 by the catch
\* and processSyncOperations is not called; otherwise the loop starts.
SyncParse(body) ==
    /\ hist.phase = "none"
    /\ req[Client].status = "idle"
    /\ IF SyncRequestSchema(body)
       THEN /\ req' = [req EXCEPT ![Client] =
                         [status |-> "running", operations |-> body,
                          results |-> <<>>, c |-> NewContext(body[1])]]
            /\ hist' = [hist EXCEPT !.phase = "posted", !.db0 = DB,
                                    !.operations = body]
       ELSE /\ req' = [req EXCEPT ![Client].status = "responded"]
            /\ hist' = [hist EXCEPT !.phase = "end", !.db0 = DB,
                                    !.operations = body, !.code = 400]
    /\ UNCHANGED <<records, ledger, conflicts, resolver, used, effects, applied, client>>

\* res.status(200).json({..., data: {results, summary}})
SyncReply ==
    /\ hist.phase = "posted"
    /\ At(Client, "next")
    /\ Len(req[Client].results) = Len(req[Client].operations)
    /\ req' = [req EXCEPT ![Client].status = "responded"]
    /\ hist' = [hist EXCEPT !.phase = "end", !.code = 200,
                            !.results = req[Client].results,
                            !.summary = summary(req[Client].results)]
    /\ UNCHANGED <<records, ledger, conflicts, resolver, used, effects, applied, client>>

NextWire ==
    \/ \E body \in Bodies : SyncParse(body)
    \/ CheckDuplicate(Client)
    \/ CreateRecord(Client)
    \/ FindRecord(Client)
    \/ CreateConflict(Client)
    \/ WriteRecord(Client)
    \/ MarkProcessed(Client)
    \/ LoopNext(Client)
    \/ SyncReply

SpecWire == Init /\ [][NextWire]_vars

\* --------------------------------- single-record writers and their answers
\* PUT and DELETE /api/todos/:id and /api/notes/:id with the status code of
\* the response kept in hist.code, next to one sync client working on todos.
PutRecord(t, id, version, title) ==
    /\ used.crud < MaxCrud
    /\ LET r == updateTodo(DB, t, id, [version |-> version, title |-> title]) IN
       /\ SetDb(r.db)
       /\ hist' = [hist EXCEPT !.code = r.code]
    /\ used' = [used EXCEPT !.crud = @ + 1]
    /\ UNCHANGED <<req, resolver, effects, applied, client>>

DeleteRecord(t, id, version) ==
    /\ used.crud < MaxCrud
    /\ LET r == deleteTodo(DB, t, id, version) IN
       /\ SetDb(r.db)
       /\ hist' = [hist EXCEPT !.code = r.code]
    /\ used' = [used EXCEPT !.crud = @ + 1]
    /\ UNCHANGED <<req, resolver, effects, applied, client>>

NextCrud ==
    \/ \E t \in Tables, id \in RecordIds : CrudCreate(t, id, "A")
    \/ \E t \in Tables, id \in RecordIds, v \in 0..MaxClientVersion :
          PutRecord(t, id, v, "B")
    \/ \E t \in Tables, id \in RecordIds, v \in 0..MaxClientVersion :
          DeleteRecord(t, id, v)
    \/ \E op \in TodoOperation : Receive(Syncer, op)
    \/ CheckDuplicate(Syncer)
    \/ CreateRecord(Syncer)
    \/ FindRecord(Syncer)
    \/ CreateConflict(Syncer)
    \/ WriteRecord(Syncer)
    \/ MarkProcessed(Syncer)
    \/ Respond(Syncer)

SpecCrud == Init /\ [][NextCrud]_vars

\* ------------------------------------------------------ the browser client
\* The client keeps its own todos table, the outbox and the local conflicts
\* table in the browser (SQL.js); SyncEngine posts the outbox to /api/sync.
\* Each `await` of sync() is one step; the server handles the POST while no
\* other request runs, so its handling is one step of processSyncOperations.
MaxQueued == 3
MaxRetry == 1

\* crypto.randomUUID(): an id no outbox entry has (entries are never removed)
NewOperationId(cl) == LongOpIds[Len(cl.outbox) + 1]

\* OutboxRepository.addOperation, as queueCreate/queueUpdate/queueDelete call it
addOperation(cl, action, entity, payload) ==
    [cl EXCEPT !.outbox = Append(@, [operationId |-> NewOperationId(cl),
                                     action |-> action,
                                     entity |-> entity,
                                     payload |-> payload,
                                     synced |-> 0,
                                     retryCount |-> 0])]

\* SELECT * FROM outbox WHERE synced = 0 ORDER BY createdAt ASC
getPendingOperations(cl) == SelectSeq(cl.outbox, LAMBDA e : e.synced = 0)

\* UPDATE outbox SET synced = 1 WHERE operationId = ?
markAsSynced(cl, operationId) ==
    LET box == cl.outbox IN
    [cl EXCEPT !.outbox = [i \in DOMAIN box |->
                              IF box[i].operationId = operationId
                              THEN [box[i] EXCEPT !.synced = 1]
                              ELSE box[i]]]

\* UPDATE outbox SET retryCount = retryCount + 1, lastError = ? WHERE operationId = ?
incrementRetry(cl, operationId) ==
    LET box == cl.outbox IN
    [cl EXCEPT !.outbox = [i \in DOMAIN box |->
                              IF box[i].operationId = operationId
                              THEN [box[i] EXCEPT !.retryCount = @ + 1]
                              ELSE box[i]]]

\* TodoService.createTodo: the row at version 1, queued whole
LocalCreateTodo(id) ==
    /\ client.todos[id] = Null
    /\ Len(client.outbox) < MaxQueued
    /\ LET todo == [id |-> id, title |-> "A", version |-> 1, deletedAt |-> NullScalar] IN
       client' = addOperation([client EXCEPT !.todos[id] = todo], "CREATE", "todos", todo)
    /\ UNCHANGED <<records, ledger, conflicts, req, resolver, used, effects, applied, hist>>

\* TodoService.updateTodo: TodoRepository.updateTodo writes version + 1 and
\* the updated row is queued whole
LocalUpdateTodo(id) ==
    /\ client.todos[id] # Null
    /\ client.todos[id].deletedAt = NullScalar
    /\ Len(client.outbox) < MaxQueued
    /\ LET todo == [client.todos[id] EXCEPT !.title = "B", !.version = @ + 1] IN
       client' = addOperation([client EXCEPT !.todos[id] = todo], "UPDATE", "todos", todo)
    /\ UNCHANGED <<records, ledger, conflicts, req, resolver, used, effects, applied, hist>>

\* TodoService.deleteTodo: softDelete keeps the version; the row read before
\* the delete is queued with deletedAt set
LocalDeleteTodo(id) ==
    /\ client.todos[id] # Null
    /\ client.todos[id].deletedAt = NullScalar
    /\ Len(client.outbox) < MaxQueued
    /\ LET todo == client.todos[id] IN
       client' = addOperation([client EXCEPT !.todos[id].deletedAt = "t"],
                              "DELETE", "todos", [todo EXCEPT !.deletedAt = "t"])
    /\ UNCHANGED <<records, ledger, conflicts, req, resolver, used, effects, applied, hist>>

\* NetworkDetector.setOnlineStatus
SetOnlineStatus(status) ==
    /\ client.isOnline # status
    /\ client' = [client EXCEPT !.isOnline = status]
    /\ UNCHANGED <<records, ledger, conflicts, req, resolver, used, effects, applied, hist>>

\* a sync() call that has returned `message`
SyncReturned(cl, c, message) ==
    [cl EXCEPT !.call[c] = [IdleCall EXCEPT !.message = message]]

\* the `finally` of sync() and its return
Finally(cl, c, message) ==
    [SyncReturned(cl, c, message) EXCEPT !.isSyncing = FALSE]

\* (mutation) sync() without the isSyncing test
syncWithoutGuard(cl, c) ==
    IF ~cl.isOnline
    THEN SyncReturned(cl, c, "Device is offline")
    ELSE [cl EXCEPT !.isSyncing = TRUE, !.call[c] = [IdleCall EXCEPT !.pc = "read"]]

\* sync() up to its first await: the two early returns, or isSyncing = true
sync(cl, c) ==
    IF cl.isSyncing
    THEN SyncReturned(cl, c, "Sync already in progress")
    ELSE IF ~cl.isOnline
    THEN SyncReturned(cl, c, "Device is offline")
    ELSE [cl EXCEPT !.isSyncing = TRUE, !.call[c] = [IdleCall EXCEPT !.pc = "read"]]

\* sync() called by the button (forceSync), the auto-sync timer or the
\* network listener
SyncCall(c) ==
    /\ client.call[c].pc = "idle"
    /\ \A i \in DOMAIN client.outbox : client.outbox[i].retryCount <= MaxRetry
    /\ client' = sync(client, c)
    /\ UNCHANGED <<records, ledger, conflicts, req, resolver, used, effects, applied, hist>>

\* `pendingOps.map(...)`: every pending entry, in outbox order
ToOperations(pendingOps) ==
    [i \in DOMAIN pendingOps |->
        [operationId |-> pendingOps[i].operationId,
         action |-> pendingOps[i].action,
         table |-> pendingOps[i].entity,
         data |-> pendingOps[i].payload]]

\* `await this.outboxService.getPendingOperations()` and what follows it
ReadOutbox(c) ==
    /\ client.call[c].pc = "read"
    /\ LET pendingOps == getPendingOperations(client) IN
       client' = IF Len(pendingOps) = 0
                 THEN Finally(client, c, "No pending operations")
                 ELSE [client EXCEPT !.call[c].pc = "post",
                                     !.call[c].operations = ToOperations(pendingOps)]
    /\ UNCHANGED <<records, ledger, conflicts, req, resolver, used, effects, applied, hist>>

\* `data: record` of the three results that carry the written row
ResultData(db, op, result) ==
    IF result.message \in {"Record created successfully",
                           "Record updated successfully",
                           "Record deleted successfully"}
    THEN db.records[op.table][op.data.id]
    ELSE Null

\* the results of POST /api/sync as the client receives them
RECURSIVE syncResponse(_, _)
syncResponse(db, operations) ==
    IF operations = <<>>
    THEN [db |-> db, results |-> <<>>]
    ELSE LET op == Head(operations)
             s == RunOperation(db, NewContext(op))
             rest == syncResponse(s.db, Tail(operations)) IN
         [db |-> rest.db,
          results |-> <<[operationId |-> s.result.operationId,
                         status |-> s.result.status,
                         message |-> s.result.message,
                         data |-> ResultData(s.db, op, s.result)]>> \o rest.results]

\* apiClient.sync: fetch rejects, the server is not reached
SyncUnreachable(c) ==
    /\ client.call[c].pc = "post"
    /\ client' = Finally(client, c, "Failed to fetch")
    /\ UNCHANGED <<records, ledger, conflicts, req, resolver, used, effects, applied, hist>>

\* apiClient.sync: the body fails SyncRequestSchema, 400, `!response.ok` throws
SyncRejected(c) ==
    /\ client.call[c].pc = "post"
    /\ ~SyncRequestSchema(client.call[c].operations)
    /\ client' = Finally(client, c, "Sync failed: Bad Request")
    /\ UNCHANGED <<records, ledger, conflicts, req, resolver, used, effects, applied, hist>>

\* apiClient.sync: the server processes the batch and its answer arrives
SyncAccepted(c) ==
    /\ client.call[c].pc = "post"
    /\ SyncRequestSchema(client.call[c].operations)
    /\ LET s == syncResponse(DB, client.call[c].operations) IN
       /\ SetDb(s.db)
       /\ client' = [client EXCEPT !.call[c].pc = "process",
                                   !.call[c].results = s.results]
    /\ UNCHANGED <<req, resolver, used, effects, applied, hist>>

\* apiClient.sync: the server processes the batch, the answer is lost
SyncReplyLost(c) ==
    /\ client.call[c].pc = "post"
    /\ SyncRequestSchema(client.call[c].operations)
    /\ LET s == syncResponse(DB, client.call[c].operations) IN
       /\ SetDb(s.db)
       /\ client' = Finally(client, c, "Failed to fetch")
    /\ UNCHANGED <<req, resolver, used, effects, applied, hist>>

\* handleApplied: the entry is synced and the local row takes the server's
\* version (a todo's `status` column is never empty, so `entity` is the
\* table of a live row and null for a tombstone)
handleApplied(cl, result) ==
    LET marked == markAsSynced(cl, result.operationId)
        data == result.data IN
    IF data = Null \/ data.deletedAt # NullScalar \/ cl.todos[data.id] = Null
    THEN marked
    ELSE [marked EXCEPT !.todos[data.id].version = data.version]

\* ConflictRepository.createConflict: INSERT OR REPLACE, id = operationId
storeConflict(cl, result) ==
    [cl EXCEPT !.conflicts =
        {k \in @ : k.id # result.operationId}
        \cup {[id |-> result.operationId,
               operationId |-> result.operationId,
               serverData |-> result.data.serverData,
               clientData |-> result.data.clientData,
               status |-> "PENDING"]}]

\* handleConflict: the entry stays pending; the conflict is stored only when
\* the result has `data`
handleConflict(cl, result) ==
    IF result.data # Null THEN storeConflict(cl, result) ELSE cl

\* (mutation) every ERROR result counts as a failure
handleErrorAlwaysRetry(cl, result) ==
    incrementRetry(cl, result.operationId)

\* handleError
handleError(cl, result) ==
    IF result.message = DupMessage
    THEN markAsSynced(cl, result.operationId)
    ELSE incrementRetry(cl, result.operationId)

\* one turn of the loop of processResults
ProcessResult(c) ==
    /\ client.call[c].pc = "process"
    /\ client.call[c].results # <<>>
    /\ LET result == Head(client.call[c].results)
           handled == IF result.status = "APPLIED" THEN handleApplied(client, result)
                      ELSE IF result.status = "CONFLICT" THEN handleConflict(client, result)
                      ELSE handleError(client, result) IN
       client' = [handled EXCEPT !.call[c].results = Tail(@)]
    /\ UNCHANGED <<records, ledger, conflicts, req, resolver, used, effects, applied, hist>>

\* processResults returns, sync() returns through `finally`
SyncReturn(c) ==
    /\ client.call[c].pc = "process"
    /\ client.call[c].results = <<>>
    /\ client' = Finally(client, c, "Sync completed")
    /\ UNCHANGED <<records, ledger, conflicts, req, resolver, used, effects, applied, hist>>

\* ConflictService.resolveConflict with the server's handling of
\* PUT /api/conflicts/:id/resolve; `alert` is what ConflictList then shows
resolveConflict(cl, db, conflictId, resolution, customData) ==
    LET found == {k \in cl.conflicts : k.id = conflictId}
        failed == [cl |-> [cl EXCEPT !.alert = "Failed to resolve conflict"], db |-> db] IN
    IF found = {} THEN failed
    ELSE LET conflict == CHOOSE k \in found : TRUE
             resolvedData == IF resolution = "SERVER" THEN conflict.serverData
                             ELSE IF resolution = "CLIENT" THEN conflict.clientData
                             ELSE customData
             q == ResolvePrepare(db, conflictId,
                                 [resolution |-> resolution, resolvedData |-> resolvedData])
             t == ResolveTransaction(db, q.conflict, q.dataToApply) IN
         IF q.code # 0 THEN failed
         ELSE IF t.code # 200 THEN failed
         ELSE [cl |-> [cl EXCEPT
                         !.conflicts = (@ \ {conflict})
                                       \cup {[conflict EXCEPT !.status = "RESOLVED"]},
                         !.alert = "Conflict resolved successfully!"],
               db |-> t.db]

\* the ids of the local conflicts table: operationIds
LocalConflictIds == {LongOpIds[i] : i \in 1..MaxQueued}

ClientResolve(conflictId, resolution, customData) ==
    /\ LET r == resolveConflict(client, DB, conflictId, resolution, customData) IN
       /\ client' = r.cl
       /\ SetDb(r.db)
    /\ UNCHANGED <<req, resolver, used, effects, applied, hist>>

NextClient ==
    \/ \E id \in RecordIds : LocalCreateTodo(id)
    \/ \E id \in RecordIds : LocalUpdateTodo(id)
    \/ \E id \in RecordIds : LocalDeleteTodo(id)
    \/ \E status \in BOOLEAN : SetOnlineStatus(status)
    \/ \E c \in Callers : SyncCall(c)
    \/ \E c \in Callers : ReadOutbox(c)
    \/ \E c \in Callers : SyncUnreachable(c)
    \/ \E c \in Callers : SyncAccepted(c)
    \/ \E c \in Callers : SyncReplyLost(c)
    \/ \E c \in Callers : ProcessResult(c)
    \/ \E c \in Callers : SyncReturn(c)
    \/ \E id \in ConflictIds, dto \in ResolveConflictDTO :
          ResolveRequest("p1", id, dto, MaxResolves)
    \/ ResolveCommit("p1")
    \/ \E conflictId \in LocalConflictIds, resolution \in {"CLIENT", "SERVER", "CUSTOM"},
          customData \in CustomData :
          ClientResolve(conflictId, resolution, customData)

SpecClient == Init /\ [][NextClient]_vars

\* ------------------------------------------------- a long time offline
\* The outbox after createTodo and n - 1 calls of updateTodo on the same
\* todo, none of them synced: more entries than one request may carry.
Backlog(id, n) ==
    [i \in 1..n |->
        [operationId |-> LongOpIds[i],
         action |-> IF i = 1 THEN "CREATE" ELSE "UPDATE",
         entity |-> "todos",
         payload |-> [id |-> id, title |-> IF i = 1 THEN "A" ELSE "B",
                      version |-> i, deletedAt |-> NullScalar],
         synced |-> 0,
         retryCount |-> 0]]

InitBacklog ==
    /\ records = EmptyDb.records
    /\ ledger = {}
    /\ conflicts = {}
    /\ req = [r \in Reqs |-> IdleRequest]
    /\ resolver = [p \in Resolvers |-> IdleResolver]
    /\ used = [ops |-> 0, crud |-> 0, resolves |-> 0]
    /\ effects = {}
    /\ applied = [id \in ConflictIds |-> 0]
    /\ hist = NoHist
    /\ \E id \in RecordIds, n \in (MaxOperations + 1)..(MaxOperations + 2) :
          client = [NoClient EXCEPT
                      !.todos[id] = [id |-> id, title |-> "B", version |-> n,
                                     deletedAt |-> NullScalar],
                      !.outbox = Backlog(id, n)]

NextBacklog ==
    \/ \E status \in BOOLEAN : SetOnlineStatus(status)
    \/ \E c \in Callers : SyncCall(c)
    \/ \E c \in Callers : ReadOutbox(c)
    \/ \E c \in Callers : SyncUnreachable(c)
    \/ \E c \in Callers : SyncRejected(c)

SpecBacklog == InitBacklog /\ [][NextBacklog]_vars

\* ------------------------------------- one operation in two requests
\* The client posts a batch, gets no answer in time and posts it again while
\* the first request is still being processed: both requests carry the same
\* operation and their repository calls interleave.
ReceiveTwice(op) ==
    /\ hist.phase = "none"
    /\ \A r \in Reqs : req[r].status = "idle"
    /\ req' = [r \in Reqs |-> [status |-> "running", operations |-> <<op>>,
                                results |-> <<>>, c |-> NewContext(op)]]
    /\ hist' = [hist EXCEPT !.phase = "twice", !.db0 = DB, !.operations = <<op>>]
    /\ UNCHANGED <<records, ledger, conflicts, resolver, used, effects, applied, client>>

NextTwice ==
    \/ \E t \in Tables, id \in RecordIds : SeedRecord(t, id)
    \/ \E op \in SyncOperation : ReceiveTwice(op)
    \/ \E r \in Reqs : CheckDuplicate(r)
    \/ \E r \in Reqs : CreateRecord(r)
    \/ \E r \in Reqs : FindRecord(r)
    \/ \E r \in Reqs : CreateConflict(r)
    \/ \E r \in Reqs : WriteRecord(r)
    \/ \E r \in Reqs : MarkProcessed(r)

SpecTwice == Init /\ [][NextTwice]_vars

\* ============================================================== properties
Current(r) == req[r].c.op
Row(t, id) == records[t][id]
TargetRow(r) == records[Current(r).table][Current(r).data.id]
HasLedgerEntry(o) == \E e \in ledger : e.operationId = o
HasConflict(o) == \E k \in conflicts : k.operationId = o
LastResult(r) == req[r].results[Len(req[r].results)]
Finished(r) ==
    req[r].status = "running" /\ req[r].c.pc = "next" /\ Len(req[r].results) >= 1

\* request r takes a step of its own in this transition
Stepped(r) ==
    req[r].status = "running" /\ req'[r].status = "running" /\ req'[r] # req[r]
\* ... and the step ends the operation in progress with a result
Returned(r) == Stepped(r) /\ Len(req'[r].results) = Len(req[r].results) + 1
NewResult(r) == req'[r].results[Len(req'[r].results)]

\* C1: once the ledger holds an entry for operationId o, a submission of an
\* operation with that operationId that reaches its duplicate check is
\* answered ERROR 'Operation already processed' at once and changes no
\* record, no ledger entry and no conflict, whatever the state of its target.
C1_ReplayRejected ==
    [][\A r \in Reqs :
        (Stepped(r) /\ req[r].c.pc = "check" /\ HasLedgerEntry(Current(r).operationId))
        => /\ Returned(r)
           /\ NewResult(r) = OperationResult(Current(r).operationId, "ERROR",
                                             DupMessage, NullScalar)
           /\ req'[r].c.pc = "next"
           /\ req'[r].c.writes = {}
           /\ UNCHANGED <<records, ledger, conflicts>>]_vars

\* a replayed UPDATE is rejected although its record has moved to another
\* version than the one it names
C1_Witness ==
    \E r \in Reqs :
        /\ Finished(r)
        /\ LastResult(r).message = DupMessage
        /\ Current(r).action = "UPDATE"
        /\ TargetRow(r) # Null
        /\ TargetRow(r).version # Current(r).data.version

\* C2 (as claimed): after a first submission that processed all of S, the
\* second submission of S answers every operation with ERROR 'Operation
\* already processed' and leaves records, ledger and conflicts as they were
\* after the first submission.
C2_SameBatchTwice ==
    (hist.phase = "end" /\ hist.done = Len(hist.operations))
    => /\ \A i \in 1..Len(req[Client].results) :
             /\ req[Client].results[i].status = "ERROR"
             /\ req[Client].results[i].message = DupMessage
       /\ DB = hist.dbCut

\* C3 (as claimed): when the first processing of S stopped after the prefix
\* S1 and S is submitted again, every operation of S1 is answered ERROR
\* 'Operation already processed', the rest is answered as when submitted alone
\* to the database the stop left, and the final database is the one an
\* uninterrupted processing of S gives.
C3_ResubmitAfterCut ==
    hist.phase = "end"
    => /\ \A i \in 1..hist.done :
             /\ req[Client].results[i].status = "ERROR"
             /\ req[Client].results[i].message = DupMessage
       /\ SubSeq(req[Client].results, hist.done + 1, Len(hist.operations))
            = processSyncOperations(hist.dbCut,
                  SubSeq(hist.operations, hist.done + 1, Len(hist.operations))).results
       /\ DB = processSyncOperations(hist.db0, hist.operations).db

\* C4 (as claimed, record => ledger half): whenever no request is working on
\* operation o, o has written a record row only if the ledger holds o.
InFlight(o) ==
    \E r \in Reqs : req[r].status = "running" /\ req[r].c.pc # "next"
                    /\ Current(r).operationId = o
C4_RecordAndLedgerAtomic ==
    \A o \in effects : ~InFlight(o) => HasLedgerEntry(o)

\* C5: a row appears with version 1, every change of a row raises its version
\* by exactly 1, and a row never disappears.
C5_VersionSteps ==
    [][\A t \in Tables, id \in RecordIds :
        \/ records'[t][id] = records[t][id]
        \/ records[t][id] = Null /\ records'[t][id].version = 1
        \/ /\ records[t][id] # Null
           /\ records'[t][id] # Null
           /\ records'[t][id].version = records[t][id].version + 1]_vars

\* a row has been moved on by a sync operation and a resolution both
C5_Witness ==
    \E k \in conflicts :
        /\ k.status = "RESOLVED"
        /\ ledger # {}
        /\ Row(k.tableName, k.recordId) # Null
        /\ Row(k.tableName, k.recordId).version >= 3

\* C6: the step that answers CONFLICT inserts one conflict row and nothing
\* else, and the whole operation has written no record row and no ledger row.
C6_ConflictWritesOnlyConflict ==
    [][\A r \in Reqs :
        (Returned(r) /\ NewResult(r).status = "CONFLICT")
        => /\ UNCHANGED <<records, ledger>>
           /\ req'[r].c.writes = {"conflict"}
           /\ \E k \in conflicts' :
                 /\ k.operationId = Current(r).operationId
                 /\ k.id = NewResult(r).conflictId
                 /\ conflicts' = conflicts \cup {k}
                 /\ k \notin conflicts]_vars

C6_Witness ==
    \E r \in Reqs :
        /\ Finished(r)
        /\ LastResult(r).status = "CONFLICT"
        /\ TargetRow(r) = req[r].c.serverRecord
        /\ TargetRow(r).version # Current(r).data.version

\* C7: there is at most one conflict row per operationId, and every CONFLICT
\* result has exactly one conflict row with its operationId.
C7_OneConflictPerOperation ==
    /\ \A k1, k2 \in conflicts : k1.operationId = k2.operationId => k1 = k2
    /\ \A r \in Reqs : \A i \in 1..Len(req[r].results) :
          req[r].results[i].status = "CONFLICT"
          => Cardinality({k \in conflicts :
                            k.operationId = req[r].results[i].operationId}) = 1

\* an operation that had produced a conflict was submitted again, found the
\* same mismatch and was stopped by the unique index
C7_Witness ==
    \E r \in Reqs :
        /\ Finished(r)
        /\ LastResult(r).message = InternalMessage
        /\ req[r].c.serverRecord # Null
        /\ req[r].c.serverRecord.version # Current(r).data.version
        /\ HasConflict(Current(r).operationId)

\* C8 (as claimed): no operationId has both a ledger entry and a conflict.
C8_LedgerXorConflict ==
    \A o \in OpIds : ~(HasLedgerEntry(o) /\ HasConflict(o))

\* C9 (as claimed): two requests whose operations (different operationIds)
\* update or delete the same live row, both with the version v that both read
\* from it, end with one APPLIED and one CONFLICT, the row at v+1 and a
\* conflict row with serverVersion v+1 for the loser.
ReadSameLive(r1, r2) ==
    /\ Finished(r1) /\ Finished(r2)
    /\ Current(r1).action \in {"UPDATE", "DELETE"}
    /\ Current(r2).action \in {"UPDATE", "DELETE"}
    /\ Current(r1).operationId # Current(r2).operationId
    /\ Current(r1).table = Current(r2).table
    /\ Current(r1).data.id = Current(r2).data.id
    /\ req[r1].c.serverRecord # Null
    /\ req[r1].c.serverRecord = req[r2].c.serverRecord
    /\ req[r1].c.serverRecord.deletedAt = NullScalar
    /\ Current(r1).data.version = req[r1].c.serverRecord.version
    /\ Current(r2).data.version = req[r1].c.serverRecord.version
    /\ LastResult(r1).message # DupMessage
    /\ LastResult(r2).message # DupMessage

C9_ConcurrentSerializable ==
    \A r1, r2 \in Reqs :
        (r1 # r2 /\ ReadSameLive(r1, r2) /\ LastResult(r1).status = "APPLIED")
        => /\ LastResult(r2).status = "CONFLICT"
           /\ \E k \in conflicts :
                 /\ k.operationId = Current(r2).operationId
                 /\ k.serverVersion = req[r1].c.serverRecord.version + 1

AtConflict(r) == Stepped(r) /\ req[r].c.pc = "conflict"

\* C11 (as claimed): a sync UPDATE that found no record under its id answers
\* CONFLICT with a conflictId and stores a PENDING conflict with serverData
\* null, serverVersion 0 and the payload's version as clientVersion, and
\* writes no record and no ledger entry.
C11_AbsentUpdateConflict ==
    [][\A r \in Reqs :
        (AtConflict(r) /\ Current(r).action = "UPDATE" /\ req[r].c.serverRecord = Null)
        => /\ Returned(r)
           /\ NewResult(r).status = "CONFLICT"
           /\ NewResult(r).conflictId # NullScalar
           /\ \E k \in conflicts' :
                 /\ k.id = NewResult(r).conflictId
                 /\ k.operationId = Current(r).operationId
                 /\ k.status = "PENDING"
                 /\ k.serverData = Null
                 /\ k.serverVersion = 0
                 /\ k.clientVersion = Current(r).data.version
           /\ UNCHANGED <<records, ledger>>]_vars

\* C12 (as claimed): a sync UPDATE or DELETE that read a live record whose
\* version differs from the payload's answers CONFLICT and stores a PENDING
\* conflict holding the record as read (serverData, serverVersion) and the
\* payload (clientData, clientVersion).
C12_MismatchConflict ==
    [][\A r \in Reqs :
        (/\ AtConflict(r)
         /\ req[r].c.serverRecord # Null
         /\ req[r].c.serverRecord.deletedAt = NullScalar
         /\ req[r].c.serverRecord.version # Current(r).data.version)
        => /\ Returned(r)
           /\ NewResult(r).status = "CONFLICT"
           /\ \E k \in conflicts' \ conflicts :
                 /\ k.id = NewResult(r).conflictId
                 /\ k.operationId = Current(r).operationId
                 /\ k.status = "PENDING"
                 /\ k.serverVersion = req[r].c.serverRecord.version
                 /\ k.clientVersion = Current(r).data.version
                 /\ k.serverData = req[r].c.serverRecord
                 /\ k.clientData = Current(r).data]_vars

\* -------------------------------------------------- resolution and dismissal
ConflictRow(id) == CHOOSE k \in conflicts : k.id = id
Known(id) == \E k \in conflicts : k.id = id
ResolveDone(p) ==
    resolver[p].pc = "resolveTx" /\ resolver'[p].pc = "idle" /\ resolver'[p].code = 200
DismissDone(p) ==
    resolver[p].pc = "dismissTx" /\ resolver'[p].pc = "idle" /\ resolver'[p].code = 200
\* the payload a resolution names
Selected(k, dto) ==
    CASE dto.resolution = "CLIENT" -> k.clientData
      [] dto.resolution = "SERVER" -> k.serverData
      [] OTHER -> dto.resolvedData

\* C13: a resolve request on a PENDING conflict goes on to its transaction with
\* the payload its resolution names (clientData, serverData, resolvedData), and
\* the transaction sets the record's columns to the payload's (id and version
\* aside), leaves the other columns, raises the record's version by exactly 1
\* whatever versions the payload and the conflict carry, and leaves the
\* conflict RESOLVED with resolvedAt set and resolvedData = the payload.
C13_ResolveApplies ==
    [][/\ \A p \in Resolvers, id \in ConflictIds, dto \in ResolveConflictDTO :
            (/\ ResolveRequest(p, id, dto, MaxConcurrent)
             /\ Known(id)
             /\ ConflictRow(id).status = "PENDING"
             /\ ~(dto.resolution = "CUSTOM" /\ dto.resolvedData = Null))
            => /\ resolver'[p].pc = "resolveTx"
               /\ resolver'[p].conflict.id = id
               /\ resolver'[p].dataToApply = Selected(ConflictRow(id), dto)
       /\ \A p \in Resolvers :
            ResolveDone(p)
            => LET k == resolver[p].conflict
                   d == resolver[p].dataToApply
                   old == records[k.tableName][k.recordId]
                   new == records'[k.tableName][k.recordId] IN
               /\ new.version = old.version + 1
               /\ \A f \in DOMAIN d \ {"id", "version"} : new[f] = d[f]
               /\ \A f \in DOMAIN old \ (DOMAIN d \cup {"version"}) : new[f] = old[f]
               /\ \E k2 \in conflicts' :
                     /\ k2.id = k.id
                     /\ k2.status = "RESOLVED"
                     /\ k2.resolvedAt # NullScalar
                     /\ k2.resolvedData = d]_vars

\* the client's side of a version conflict was applied: the record carries the
\* client's title one version above the snapshot, not above the client's
C13_Witness ==
    \E k \in conflicts :
        /\ k.status = "RESOLVED"
        /\ k.resolvedData = k.clientData
        /\ "title" \in DOMAIN k.clientData
        /\ k.clientVersion # k.serverVersion
        /\ Row(k.tableName, k.recordId).title = k.clientData.title
        /\ Row(k.tableName, k.recordId).version = k.serverVersion + 1

\* the answer a resolve or dismiss request must get for the conflict id it names
Rejected(p, id) ==
    /\ ~Known(id)
       => /\ resolver'[p].pc = "idle"
          /\ resolver'[p].code = 404
          /\ UNCHANGED <<records, ledger, conflicts>>
    /\ (Known(id) /\ ConflictRow(id).status # "PENDING")
       => /\ resolver'[p].pc = "idle"
          /\ resolver'[p].code \in 400..499
          /\ UNCHANGED <<records, ledger, conflicts>>

\* C14: a resolve or dismiss request that names a conflict which is RESOLVED or
\* DISMISSED ends at once with a 4xx answer, one that names no conflict ends
\* with 404, and neither changes any conflict or record.
C14_NonPendingRejected ==
    [][\A p \in Resolvers, id \in ConflictIds :
        /\ \A dto \in ResolveConflictDTO :
              ResolveRequest(p, id, dto, MaxConcurrent) => Rejected(p, id)
        /\ DismissRequest(p, id, MaxConcurrent) => Rejected(p, id)]_vars

\* a request met a conflict that was already resolved or dismissed
C14_Witness ==
    \E p \in Resolvers :
        /\ resolver[p].pc = "idle"
        /\ resolver[p].code = 400
        /\ resolver[p].conflict # Null
        /\ resolver[p].conflict.status \in {"RESOLVED", "DISMISSED"}
        /\ resolver[p].conflict \in conflicts

\* C15 (as claimed): a conflict that has left PENDING is never written again,
\* and at most one resolution writes the conflict's record.
C15_OneResolutionWins ==
    [][/\ \A k \in conflicts : k.status # "PENDING" => k \in conflicts'
       /\ \A id \in ConflictIds : applied'[id] <= 1]_vars

\* C16 (as claimed): the record of conflict C has been written by a resolution
\* of C exactly when C is RESOLVED, and a resolution whose transaction fails
\* changes nothing.
C16_ResolutionAtomic ==
    [][/\ \A id \in ConflictIds :
            applied'[id] >= 1
            <=> \E k \in conflicts' : k.id = id /\ k.status = "RESOLVED"
       /\ \A p \in Resolvers :
            (resolver[p].pc = "resolveTx" /\ resolver'[p].code = 500)
            => UNCHANGED <<records, ledger, conflicts>>]_vars

\* C18: a dismissal that succeeds leaves the conflict DISMISSED and changes no
\* record, no ledger entry and no other conflict.
C18_DismissFrame ==
    [][\A p \in Resolvers :
        DismissDone(p)
        => /\ UNCHANGED <<records, ledger>>
           /\ \E k \in conflicts, d \in conflicts' :
                 /\ k.id = resolver[p].conflict.id
                 /\ d.id = k.id
                 /\ d.status = "DISMISSED"
                 /\ conflicts' \ {d} = conflicts \ {k}]_vars

\* a conflict was dismissed and its record is still the one the snapshot shows
C18_Witness ==
    \E k \in conflicts :
        /\ k.status = "DISMISSED"
        /\ k.serverData = Row(k.tableName, k.recordId)
        /\ \E k2 \in conflicts : k2.id # k.id /\ k2.status = "PENDING"

C19_ErrorWritesNothing ==
    [][\A r \in Reqs :
        (Returned(r) /\ NewResult(r).status = "ERROR")
        => /\ req'[r].c.writes = {}
           /\ UNCHANGED <<records, ledger, conflicts>>]_vars

\* ----------------------------------------------- operations of one batch
\* the operation in progress is not the first and follows an APPLIED operation
\* on the same record
Index(r) == Len(req[r].results) + 1
FollowsApplied(r) ==
    /\ Index(r) >= 2
    /\ req[r].operations[Index(r) - 1].table = Current(r).table
    /\ req[r].operations[Index(r) - 1].data.id = Current(r).data.id
    /\ req[r].results[Index(r) - 1].status = "APPLIED"

\* CREATE(r); UPDATE(r, v=1, f); DELETE(r, v=2)
IsL1(ops) ==
    /\ Len(ops) = 3
    /\ ops[1].action = "CREATE" /\ ops[2].action = "UPDATE" /\ ops[3].action = "DELETE"
    /\ ops[2].table = ops[1].table /\ ops[3].table = ops[1].table
    /\ ops[2].data.id = ops[1].data.id /\ ops[3].data.id = ops[1].data.id
    /\ ops[2].data.version = 1 /\ ops[3].data.version = 2

\* results come in input order, an operation reads the row as the operation
\* before it left it, and L1 on a new record gives three APPLIED and a
\* tombstone with version 3 and the UPDATE's fields
InOrder(r) ==
    /\ Returned(r) => NewResult(r).operationId = req[r].operations[Index(r)].operationId
    /\ (Stepped(r) /\ req[r].c.pc = "find") => req'[r].c.serverRecord = TargetRow(r)
    /\ LET ops == req'[r].operations
           res == req'[r].results IN
       (/\ Returned(r) /\ Len(res) = 3 /\ IsL1(ops)
        /\ hist.db0.records[ops[1].table][ops[1].data.id] = Null)
       => /\ \A i \in 1..3 : res[i].status = "APPLIED"
          /\ records'[ops[1].table][ops[1].data.id]
                = [id |-> ops[1].data.id, title |-> ops[2].data.title,
                   version |-> 3, deletedAt |-> "t"]

Posted == hist.operations
Answered(code) == hist.phase = "end" /\ hist.code = code
CountOf(res, status) == Cardinality({i \in 1..Len(res) : res[i].status = status})

\* C21: the 200 response to a body of n operations holds n results, the i-th
\* with the operationId of the i-th operation and a status among APPLIED,
\* CONFLICT and ERROR, a CONFLICT with a conflictId and an ERROR with a
\* message; summary.total = n, the three counts add up to it and each is the
\* number of results of its status.
C21_ResponseShape ==
    Answered(200)
    => LET n == Len(Posted)
           res == hist.results
           s == hist.summary IN
       /\ Len(res) = n
       /\ \A i \in 1..n :
             /\ res[i].operationId = Posted[i].operationId
             /\ res[i].status \in {"APPLIED", "CONFLICT", "ERROR"}
             /\ res[i].status = "CONFLICT" => res[i].conflictId # NullScalar
             /\ res[i].status = "ERROR" => res[i].message # NullScalar
       /\ s.total = n
       /\ s.applied + s.conflicts + s.errors = s.total
       /\ s.applied = CountOf(res, "APPLIED")
       /\ s.conflicts = CountOf(res, "CONFLICT")
       /\ s.errors = CountOf(res, "ERROR")

\* a response with an APPLIED and a CONFLICT result
C21_Witness ==
    /\ Answered(200)
    /\ hist.summary = [total |-> 2, applied |-> 1, conflicts |-> 1, errors |-> 0]
    /\ hist.results[2].conflictId \in ConflictIds

\* request r is past the read of its UPDATE, and the read gave a tombstone
OnTombstone(r) ==
    /\ Stepped(r)
    /\ Current(r).action = "UPDATE"
    /\ req[r].c.pc \in {"conflict", "write", "mark"}
    /\ req[r].c.serverRecord # Null
    /\ req[r].c.serverRecord.deletedAt # NullScalar

\* what the result of an UPDATE must be when its read gave the tombstone sr
TombstoneAnswer(r, sr) ==
    /\ NewResult(r).status # "APPLIED"
    /\ sr.version # Current(r).data.version
       => /\ NewResult(r).status = "CONFLICT"
          /\ \E k \in conflicts' :
                /\ k.id = NewResult(r).conflictId
                /\ k.operationId = Current(r).operationId

\* C22 (as claimed): a sync UPDATE whose read gave a tombstone changes no record
\* and no ledger entry in any of its steps and is never answered APPLIED; when
\* its version differs from the tombstone's it is answered CONFLICT and the
\* conflict is stored.
C22_TombstoneUpdate ==
    [][\A r \in Reqs :
        OnTombstone(r)
        => /\ UNCHANGED <<records, ledger>>
           /\ Returned(r) => TombstoneAnswer(r, req[r].c.serverRecord)]_vars

\* C23: a sync CREATE that has passed the duplicate check and finds a row
\* under its (table, id), live or tombstoned, is answered ERROR at once and
\* changes no record, no ledger entry and no conflict; a row, once inserted,
\* is never inserted again.
C23_DuplicateCreate ==
    [][/\ \A r \in Reqs :
            (Stepped(r) /\ req[r].c.pc = "create" /\ TargetRow(r) # Null)
            => /\ Returned(r)
               /\ NewResult(r).status = "ERROR"
               /\ req'[r].c.writes = {}
               /\ UNCHANGED <<records, ledger, conflicts>>
       /\ \A r \in Reqs :
            (Stepped(r) /\ req[r].c.pc = "create" /\ ~Returned(r))
            => /\ TargetRow(r) = Null
               /\ records'[Current(r).table][Current(r).data.id] # Null
       /\ \A t \in Tables, id \in RecordIds :
            records[t][id] # Null => records'[t][id] # Null]_vars

\* a CREATE under an operationId the ledger does not hold met a tombstone
C23_Witness ==
    \E r \in Reqs :
        /\ Finished(r)
        /\ Current(r).action = "CREATE"
        /\ LastResult(r).status = "ERROR"
        /\ LastResult(r).message # DupMessage
        /\ req[r].c.writes = {}
        /\ TargetRow(r) # Null
        /\ TargetRow(r).deletedAt # NullScalar
        /\ ~HasLedgerEntry(Current(r).operationId)
        /\ ~HasConflict(Current(r).operationId)

\* C24 (as claimed): the step that answers a sync CREATE with APPLIED leaves its
\* record live with version 1 and deletedAt null, whatever version and
\* deletedAt the payload carries.
C24_CreateIgnoresClientState ==
    [][\A r \in Reqs :
        (Returned(r) /\ Current(r).action = "CREATE" /\ NewResult(r).status = "APPLIED")
        => LET row == records'[Current(r).table][Current(r).data.id] IN
           /\ row # Null
           /\ row.version = 1
           /\ row.deletedAt = NullScalar]_vars

\* two elements of the body carry the same operationId
RepeatsOperationId(body) ==
    \E i, j \in 1..Len(body) : i # j /\ body[i].operationId = body[j].operationId

\* C25 (as claimed): a request whose body holds two operations with the same
\* operationId is answered 400 and leaves records, ledger and conflicts as
\* they were.
C25_RepeatedIdRejected ==
    (hist.phase = "end" /\ RepeatsOperationId(Posted))
    => /\ hist.code = 400
       /\ DB = hist.db0

C28_ConflictIdIsOperationId ==
    [][\A r \in Reqs :
        (Returned(r) /\ NewResult(r).status = "CONFLICT")
        => /\ NewResult(r).conflictId = Current(r).operationId
           /\ \E k \in conflicts' :
                 /\ k.operationId = Current(r).operationId
                 /\ k.id = Current(r).operationId]_vars

\* PUT /api/conflicts/:id/resolve with {resolution: 'CUSTOM'} and no resolvedData
CustomWithoutData == [resolution |-> "CUSTOM", resolvedData |-> Null]

\* C29: a CUSTOM resolution without resolvedData ends at once, with 400 when
\* the conflict exists (404 when it does not), changes no record, no ledger
\* entry and no conflict, and a PENDING conflict is PENDING afterwards.
C29_CustomNeedsData ==
    [][\A p \in Resolvers, id \in ConflictIds :
        ResolveRequest(p, id, CustomWithoutData, MaxConcurrent)
        => /\ resolver'[p].pc = "idle"
           /\ resolver'[p].code = IF Known(id) THEN 400 ELSE 404
           /\ UNCHANGED <<records, ledger, conflicts>>
           /\ (Known(id) /\ ConflictRow(id).status = "PENDING")
              => \E k \in conflicts' : k.id = id /\ k.status = "PENDING"]_vars

\* a request was turned down with 400 on a conflict that is PENDING
C29_Witness ==
    \E p \in Resolvers :
        /\ resolver[p].pc = "idle"
        /\ resolver[p].code = 400
        /\ resolver[p].conflict # Null
        /\ resolver[p].conflict.status = "PENDING"
        /\ resolver[p].conflict \in conflicts
        /\ Row(resolver[p].conflict.tableName, resolver[p].conflict.recordId)
              = resolver[p].conflict.serverData

\* the row a single-record write with this version would change
Matches(t, id, version) ==
    /\ records[t][id] # Null
    /\ records[t][id].deletedAt = NullScalar
    /\ records[t][id].version = version

\* what a single-record write of kind PUT or DELETE must answer and do
CrudOutcome(t, id, version, kind) ==
    IF version < 1
    THEN hist'.code = 400 /\ UNCHANGED <<records, ledger, conflicts>>
    ELSE IF ~Matches(t, id, version)
    THEN hist'.code = 409 /\ UNCHANGED <<records, ledger, conflicts>>
    ELSE /\ hist'.code = 200
         /\ records'[t][id].version = version + 1
         /\ records'[t][id].id = id
         /\ records'[t][id].title = IF kind = "PUT" THEN "B" ELSE records[t][id].title
         /\ (records'[t][id].deletedAt = NullScalar) <=> (kind = "PUT")
         /\ \A t2 \in Tables, id2 \in RecordIds :
               <<t2, id2>> # <<t, id>> => records'[t2][id2] = records[t2][id2]
         /\ UNCHANGED <<ledger, conflicts>>

\* C30: a PUT or DELETE of one todo or note whose version is not the row's, or
\* whose row is absent or tombstoned, is answered 409 and changes no record,
\* no conflict and no ledger entry; on a live row with that version it is
\* answered 200 and raises the version by exactly 1.  (A version that is no
\* positive integer is turned down with 400.)
C30_CrudVersionCheck ==
    [][\A t \in Tables, id \in RecordIds, v \in 0..MaxClientVersion :
        /\ PutRecord(t, id, v, "B") => CrudOutcome(t, id, v, "PUT")
        /\ DeleteRecord(t, id, v) => CrudOutcome(t, id, v, "DELETE")]_vars

\* a write was answered 409 on a tombstone whose version it named
C30_Witness ==
    /\ hist.code = 409
    /\ \E t \in Tables, id \in RecordIds :
          /\ records[t][id] # Null
          /\ records[t][id].deletedAt # NullScalar
          /\ records[t][id].version = MaxClientVersion
          /\ used.crud = MaxCrud
    /\ ledger # {}

\* the outbox entry of an operation
OutboxEntry(cl, operationId) ==
    CHOOSE e \in {cl.outbox[i] : i \in DOMAIN cl.outbox} : e.operationId = operationId

\* the client's POST reaches the server
Posts(c) == SyncAccepted(c) \/ SyncReplyLost(c)

\* C31: the client handles each result of a sync response by its status: an
\* APPLIED result and an ERROR result saying 'Operation already processed'
\* mark the outbox entry synced, any other ERROR leaves it pending with
\* retryCount one higher, a CONFLICT leaves it pending as it was; an entry is
\* pending when it is posted and a synced entry never becomes pending again.
C31_ResultHandling ==
    [][/\ \A c \in Callers :
            ProcessResult(c) =>
              LET result == Head(client.call[c].results)
                  before == OutboxEntry(client, result.operationId)
                  after == OutboxEntry(client', result.operationId) IN
              /\ result.status = "APPLIED" => after.synced = 1
              /\ (result.status = "ERROR" /\ result.message = DupMessage) => after.synced = 1
              /\ (result.status = "ERROR" /\ result.message # DupMessage) =>
                    after.synced = 0 /\ after.retryCount = before.retryCount + 1
              /\ result.status = "CONFLICT" =>
                    after.synced = 0 /\ after.retryCount = before.retryCount
       /\ \A c \in Callers :
            Posts(c) =>
              \A i \in DOMAIN client.call[c].operations :
                 OutboxEntry(client, client.call[c].operations[i].operationId).synced = 0
       /\ \A i \in DOMAIN client.outbox :
            client.outbox[i].synced = 1 => client'.outbox[i].synced = 1]_vars

\* one entry was marked synced, another failed and is pending with a retry
\* counted, and no sync is running
C31_Witness ==
    /\ ~client.isSyncing
    /\ \E i \in DOMAIN client.outbox : client.outbox[i].synced = 1
    /\ \E i \in DOMAIN client.outbox :
          client.outbox[i].synced = 0 /\ client.outbox[i].retryCount > 0

\* C32: when the client handles a CONFLICT result it stores a local PENDING
\* conflict for the operationId of that result.
C32_ConflictStoredLocally ==
    [][\A c \in Callers :
          (ProcessResult(c) /\ Head(client.call[c].results).status = "CONFLICT") =>
             \E k \in client'.conflicts :
                /\ k.operationId = Head(client.call[c].results).operationId
                /\ k.status = "PENDING"]_vars

\* the batch holds only UPDATEs of records the server has, made by the client
\* after it synced them, and the server holds no conflict (nobody but the
\* client has written)
UpdatesOfSyncedRecords(c) ==
    /\ conflicts = {}
    /\ \A i \in DOMAIN client.call[c].operations :
          LET op == client.call[c].operations[i] IN
          /\ op.action = "UPDATE"
          /\ records[op.table][op.data.id] # Null

\* C33: with the client the only writer, a batch of UPDATEs of records it
\* created and synced earlier gets no CONFLICT result: every result is
\* APPLIED.
C33_SoleWriterNeverConflicts ==
    [][\A c \in Callers :
          (SyncAccepted(c) /\ UpdatesOfSyncedRecords(c)) =>
             \A i \in DOMAIN client'.call[c].results :
                client'.call[c].results[i].status = "APPLIED"]_vars

\* the sync() calls past the two early returns
InFlightCalls == {c \in Callers : client.call[c].pc # "idle"}

\* C39: at most one sync() is past its early returns, and isSyncing is true
\* exactly while one is; a sync() called while isSyncing returns 'Sync
\* already in progress' and neither reads the outbox nor posts; a sync() that
\* returns leaves isSyncing false.
C39_SingleSyncInFlight ==
    [][/\ Cardinality(InFlightCalls') <= 1
       /\ client'.isSyncing <=> (InFlightCalls' # {})
       /\ \A c \in Callers :
            (SyncCall(c) /\ client.isSyncing) =>
               /\ client'.call[c] = [IdleCall EXCEPT !.message = "Sync already in progress"]
               /\ client' = [client EXCEPT !.call[c] = client'.call[c]]
               /\ UNCHANGED <<records, ledger, conflicts>>
       /\ \A c \in Callers :
            (c \in InFlightCalls /\ c \notin InFlightCalls') => ~client'.isSyncing]_vars

\* one call was turned away with 'Sync already in progress' while the other
\* is waiting for the server's answer
C39_Witness ==
    \E c, d \in Callers :
       /\ client.call[c].pc = "post"
       /\ client.call[d].pc = "idle"
       /\ client.call[d].message = "Sync already in progress"
       /\ client.isSyncing

\* the server holds a RESOLVED conflict of the operation
ResolvedOnServer(operationId) ==
    \E k \in conflicts : k.operationId = operationId /\ k.status = "RESOLVED"

\* C35: an operation whose conflict was resolved on the server is not
\* posted again.
C35_ResolvedNotResent ==
    [][\A c \in Callers :
          Posts(c) =>
             \A i \in DOMAIN client.call[c].operations :
                ~ResolvedOnServer(client.call[c].operations[i].operationId)]_vars

\* C34: no batch the client posts holds more than 100 operations.
C34_BatchWithinLimit ==
    \A c \in Callers :
       client.call[c].pc = "post" => Len(client.call[c].operations) <= MaxOperations

\* C36: a record whose deletedAt is set keeps a deletedAt and stays in its
\* table, whatever sync operation, resolution, dismissal or CRUD write comes.
C36_TombstoneStays ==
    [][\A t \in Tables, id \in RecordIds :
          (records[t][id] # Null /\ records[t][id].deletedAt # NullScalar)
          => (records'[t][id] # Null /\ records'[t][id].deletedAt # NullScalar)]_vars

\* C37: a CLIENT resolution of a conflict raised by a DELETE, whose payload
\* is the id and the version, leaves the record a tombstone one version up.
C37_ClientResolvesDelete ==
    [][\A p \in Resolvers :
          (/\ ResolveDone(p)
           /\ resolver[p].dataToApply = resolver[p].conflict.clientData
           /\ DOMAIN resolver[p].conflict.clientData = {"id", "version"})
          => LET k == resolver[p].conflict IN
             /\ records'[k.tableName][k.recordId].deletedAt # NullScalar
             /\ records'[k.tableName][k.recordId].version
                  = records[k.tableName][k.recordId].version + 1]_vars

\* the step of request r writes what `kind` names: "record" or "ledger"
Writes(r, kind) ==
    Stepped(r) /\ kind \in req'[r].c.writes \ req[r].c.writes

\* the version of a row, 0 for no row
VersionOf(row) == IF row = Null THEN 0 ELSE row.version

\* C38: when two requests processed concurrently carry the same operation,
\* a request writes the record only if none has written it for that
\* operationId before, writes the ledger only if it holds no entry for that
\* operationId, and the record ends at most one version above where it was.
C38_SameOperationTwice ==
    [][/\ \A r \in Reqs :
            Writes(r, "record") => Current(r).operationId \notin effects
       /\ \A r \in Reqs :
            Writes(r, "ledger") => ~HasLedgerEntry(Current(r).operationId)
       /\ hist.phase = "twice" =>
            LET op == hist.operations[1] IN
            /\ VersionOf(records'[op.table][op.data.id])
                  <= VersionOf(hist.db0.records[op.table][op.data.id]) + 1
            /\ \A t \in Tables, id \in RecordIds :
                  <<t, id>> # <<op.table, op.data.id>>
                  => records'[t][id] = hist.db0.records[t][id]]_vars

\* both requests passed the duplicate check; one applied the UPDATE, the
\* other lost the race, and the record is one version up
C38_Witness ==
    /\ hist.phase = "twice"
    /\ \E r1, r2 \in Reqs :
          /\ Finished(r1) /\ Finished(r2)
          /\ Current(r1).action = "UPDATE"
          /\ LastResult(r1).status = "APPLIED"
          /\ LastResult(r2).status # "APPLIED"
          /\ LastResult(r2).message # DupMessage
          /\ TargetRow(r1).version = VersionOf(hist.db0.records[Current(r1).table][Current(r1).data.id]) + 1
          /\ HasLedgerEntry(Current(r1).operationId)

====
